---- MODULE Spec2Model ----
(***************************************************************************)
(* A model of the mosaic puzzle solving engine of src/mosaic-solver.js:    *)
(* the resource governor (SolverSafetyManager), the constraint graph       *)
(* (MosaicCSP), the arc-consistency reducer (ac3Algorithm / revise), the   *)
(* MAC backtracking search (macBacktrack), and the count-based engine      *)
(* (basicConstraintPropagation / backtrackSolve).                          *)
(*                                                                         *)
(* Grids are sequences of rows, as the JavaScript arrays are; a cell       *)
(* coordinate is the 0-based pair <<r, c>> of the source, so that the      *)
(* clue of a cell is constraintGrid[r + 1][c + 1].                         *)
(***************************************************************************)
EXTENDS Integers, Sequences, FiniteSets, TLC

VARIABLES
    constraintGrid,  \* the clue grid handed to the solver
    gov,             \* SolverSafetyManager: one record of its fields
    now,             \* the reading Date.now() gives
    lastCall,        \* the last governor method called directly, and what it returned
    csp,             \* MosaicCSP: built flag, rows, cols, vars (value, domain per cell)
    engine,          \* which entry point is running: "csp" | "count" | "none"
    pc,              \* position of the running call
    stack,           \* the active search frames (macBacktrack / backtrackSolve)
    arg,             \* the solution array passed to the next backtrackSolve call
    basic,           \* basicSolution of mosaicConstraintPropagation
    ret,             \* the value the last finished search call returned
    result,          \* the grid the top-level call returned
    reason,          \* the termination reason the top-level call logged
    trip,            \* which governor limit stopped the run, "none" if none did
    passes,          \* accounting of the last basicConstraintPropagation run
    stepSolverState, \* the MosaicStepController of the step session, if any
    progress,        \* the calls of progressCallback made by the last step that made any
    probe            \* the last function of the solver called on its own: name, arguments, result

vars == <<constraintGrid, gov, now, lastCall, csp, engine, pc, stack, arg, basic,
          ret, result, reason, trip, passes, stepSolverState, progress, probe>>

(***************************************************************************)
(* Bounds of the model.                                                    *)
(***************************************************************************)
\* the largest number of cells of a clue grid
MaxCells == 4
\* the largest in-range clue value drawn for an input grid
MaxClue == 2
\* how far a directly driven governor counter may run past its threshold
GovWindow == 1
\* the largest number of cells of a clue grid in the runs checked for termination
MaxLiveCells == 3
\* the largest number of rows and of columns of a clue grid whose CSP is built
MaxBuildSide == 3
\* the side of the square grids on which ac3Algorithm is followed turn by turn
CapSide == 5

(***************************************************************************)
(* Program constants.                                                      *)
(***************************************************************************)
\* startTime: null
NullTime == -1
\* constraintGrid[r][c] === null: no clue on the cell
NullClue == -1
\* constraintGrid[r][c] read past the end of a short row: undefined
UndefinedClue == -2
\* a cell value of -1: not assigned
Unknown == -1
Empty == 0
Filled == 1
DefaultMaxTimeMs == 30000
DefaultMaxRecursionDepth == 100
DefaultMaxIterations == 10000
\* const maxIterations = 1000 inside ac3Algorithm
Ac3MaxIterations == 1000
\* if (iterationCount > 100) break, in basicConstraintPropagation
PropagationIterationCap == 100
\* the largest clue the puzzle allows
MaxClueValue == 9
\* emptyScore += 2, in getSmartValueOrder
SatisfiedBonus == 2

(***************************************************************************)
(* SolverSafetyManager                                                     *)
(***************************************************************************)
GovernorDefaults ==
    [startTime |-> NullTime,
     maxTimeMs |-> DefaultMaxTimeMs,
     maxRecursionDepth |-> DefaultMaxRecursionDepth,
     maxIterations |-> DefaultMaxIterations,
     operationCount |-> 0,
     currentDepth |-> 0,
     isTimeoutExceeded |-> FALSE]

\* a faulty reset that takes a new start time and keeps the rest
resetStartTimeOnly(g, t) == [g EXCEPT !.startTime = t]

reset(g, t) ==
    [g EXCEPT !.startTime = t,
              !.operationCount = 0,
              !.currentDepth = 0,
              !.isTimeoutExceeded = FALSE]

\* this.startTime && ...: null and 0 are both falsy
StartTimeSet(g) == g.startTime # NullTime /\ g.startTime # 0

checkTimeout(g, t) ==
    IF StartTimeSet(g) /\ (t - g.startTime) > g.maxTimeMs
    THEN [ret |-> TRUE, g |-> [g EXCEPT !.isTimeoutExceeded = TRUE]]
    ELSE [ret |-> FALSE, g |-> g]

\* a faulty incrementOperation that trips at the threshold itself
incrementOperationAtThreshold(g) ==
    LET g1 == [g EXCEPT !.operationCount = @ + 1]
    IN  [ret |-> g1.operationCount >= g1.maxIterations, g |-> g1]

incrementOperation(g) ==
    LET g1 == [g EXCEPT !.operationCount = @ + 1]
    IN  [ret |-> g1.operationCount > g1.maxIterations, g |-> g1]

\* a faulty enterRecursion that allows one level more
enterRecursionLoose(g) ==
    LET g1 == [g EXCEPT !.currentDepth = @ + 1]
    IN  [ret |-> g1.currentDepth > g1.maxRecursionDepth + 1, g |-> g1]

enterRecursion(g) ==
    LET g1 == [g EXCEPT !.currentDepth = @ + 1]
    IN  [ret |-> g1.currentDepth > g1.maxRecursionDepth, g |-> g1]

\* a faulty exitRecursion that forgets the decrement
exitRecursionNoop(g) == g

exitRecursion(g) == [g EXCEPT !.currentDepth = @ - 1]

\* a faulty shouldStop that measures the time again although the flag is set
shouldStopRereads(g, t) ==
    LET c == checkTimeout(g, t)
        i == incrementOperation(c.g)
    IN  IF g.isTimeoutExceeded \/ c.ret
        THEN [ret |-> TRUE, g |-> c.g, clock |-> TRUE, kind |-> "time"]
        ELSE [ret |-> i.ret, g |-> i.g, clock |-> TRUE,
              kind |-> IF i.ret THEN "ops" ELSE "none"]

\* isTimeoutExceeded || checkTimeout() || incrementOperation(), short-circuit;
\* clock tells whether Date.now() was read, kind which operand answered true.
shouldStop(g, t) ==
    IF g.isTimeoutExceeded
    THEN [ret |-> TRUE, g |-> g, clock |-> FALSE, kind |-> "time"]
    ELSE LET c == checkTimeout(g, t)
         IN  IF c.ret
             THEN [ret |-> TRUE, g |-> c.g, clock |-> TRUE, kind |-> "time"]
             ELSE LET i == incrementOperation(c.g)
                  IN  [ret |-> i.ret, g |-> i.g, clock |-> TRUE,
                       kind |-> IF i.ret THEN "ops" ELSE "none"]

(***************************************************************************)
(* Evaluation helpers                                                      *)
(***************************************************************************)
\* the function f as an enumerated value
Explicit(f) == CHOOSE g \in {f} : g = g

\* F applied to the value of v, v being computed once
Once(v, F(_)) == CHOOSE y \in {F(x) : x \in {v}} : TRUE

(***************************************************************************)
(* Grids                                                                   *)
(***************************************************************************)
\* constraintGrid[r][c]: a read past the end of a row gives undefined
At(grid, r, c) ==
    IF c + 1 <= Len(grid[r + 1]) THEN grid[r + 1][c + 1] ELSE UndefinedClue

\* rows = constraintGrid.length, cols = constraintGrid[0].length
RowsOf(grid) == Len(grid)
ColsOf(grid) == Len(grid[1])

\* the cells in the order the nested r, c loops visit them
CellSeq(rows, cols) ==
    Explicit([i \in 1..(rows * cols) |-> <<(i - 1) \div cols, (i - 1) % cols>>])

CellSet(rows, cols) == (0..(rows - 1)) \X (0..(cols - 1))

Directions ==
    << <<-1, -1>>, <<-1, 0>>, <<-1, 1>>,
       <<0, -1>>,  <<0, 0>>,  <<0, 1>>,
       <<1, -1>>,  <<1, 0>>,  <<1, 1>> >>

\* a faulty get3x3Area that leaves the centre out
get3x3AreaNoCentre(row, col, rows, cols) ==
    LET cand == [i \in 1..9 |-> <<row + Directions[i][1], col + Directions[i][2]>>]
        inBounds(p) == /\ p[1] >= 0 /\ p[1] < rows /\ p[2] >= 0 /\ p[2] < cols
                       /\ p # <<row, col>>
    IN  SelectSeq(cand, inBounds)

get3x3Area(row, col, rows, cols) ==
    LET cand == [i \in 1..9 |-> <<row + Directions[i][1], col + Directions[i][2]>>]
        inBounds(p) == p[1] >= 0 /\ p[1] < rows /\ p[2] >= 0 /\ p[2] < cols
    IN  SelectSeq(cand, inBounds)

Range(s) == {s[i] : i \in 1..Len(s)}

RECURSIVE FlattenFrom(_, _, _)
FlattenFrom(ss, i, acc) ==
    IF i > Len(ss)
    THEN acc
    ELSE Once(acc \o ss[i], LAMBDA a : FlattenFrom(ss, i + 1, a))

Flatten(ss) == Once(ss, LAMBDA s : FlattenFrom(s, 1, <<>>))

\* Array(rows).fill().map(() => Array(cols).fill(v))
FilledArray(rows, cols, v) == Explicit([r \in 1..rows |-> [c \in 1..cols |-> v]])

\* a faulty final mapping that returns the cells as they are
KeepUnknown(sol) == sol

\* solution.map(row => row.map(cell => cell === -1 ? 0 : cell))
DefaultUnknownToEmpty(sol) ==
    Explicit([r \in 1..Len(sol) |->
        [c \in 1..Len(sol[r]) |-> IF sol[r][c] = Unknown THEN Empty ELSE sol[r][c]]])

(***************************************************************************)
(* CSPVariable, CSPConstraint, MosaicCSP                                   *)
(***************************************************************************)
CSPVariable == [value |-> Unknown, domain |-> {Empty, Filled}]

\* one constraint per cell whose clue !== null, in row-major order; its
\* variables are the cells of the clipped 3x3 area in get3x3Area's order
CSPConstraint(centerRow, centerCol, requiredCount, rows, cols) ==
    [center |-> <<centerRow, centerCol>>,
     requiredCount |-> requiredCount,
     variables |-> get3x3Area(centerRow, centerCol, rows, cols)]

MosaicCSP(grid) ==
    LET rows == RowsOf(grid)
        cols == ColsOf(grid)
        cells == CellSeq(rows, cols)
        clued(p) == At(grid, p[1], p[2]) # NullClue
        centers == SelectSeq(cells, clued)
    IN  [built |-> TRUE,
         rows |-> rows,
         cols |-> cols,
         vars |-> Explicit([p \in CellSet(rows, cols) |-> CSPVariable]),
         constraints |->
            Explicit([i \in 1..Len(centers) |->
                CSPConstraint(centers[i][1], centers[i][2],
                              At(grid, centers[i][1], centers[i][2]), rows, cols)])]

NoCSP == [built |-> FALSE, rows |-> 0, cols |-> 0, vars |-> <<>>, constraints |-> <<>>]

\* variable.constraints: the constraints listing the cell, in creation order
ConstraintsOf(c, cell) ==
    LET idx == [i \in 1..Len(c.constraints) |-> i]
        has(i) == cell \in Range(c.constraints[i].variables)
    IN  SelectSeq(idx, has)

assign(var, value) ==
    IF value \notin var.domain
    THEN [ok |-> FALSE, var |-> var]
    ELSE [ok |-> TRUE, var |-> [value |-> value, domain |-> {value}]]

isAssigned(var) == var.value # Unknown

\* a faulty isSatisfied that accepts every assignment
isSatisfiedAlways(con, vals) == TRUE

\* a faulty isSatisfied that wants the fills complete already
isSatisfiedFilledOnly(con, vals) ==
    Cardinality({i \in 1..Len(con.variables) : vals[con.variables[i]].value = Filled})
        = con.requiredCount

\* CSPConstraint.isSatisfied over the values vals; a comparison with an
\* undefined requiredCount is false in JavaScript
isSatisfied(con, vals) ==
    LET filledCount == Cardinality({i \in 1..Len(con.variables) :
                                        vals[con.variables[i]].value = Filled})
        unknownCount == Cardinality({i \in 1..Len(con.variables) :
                                        vals[con.variables[i]].value = Unknown})
    IN  IF con.requiredCount = UndefinedClue
        THEN TRUE
        ELSE /\ ~(filledCount > con.requiredCount)
             /\ ~(filledCount + unknownCount < con.requiredCount)

\* constraint.getArcs(): both directions of every pair i < j
getArcs(con, ci) ==
    LET n == Len(con.variables)
        pairs == [k \in 1..(n * n) |-> <<((k - 1) \div n) + 1, ((k - 1) % n) + 1>>]
        lower(p) == p[1] < p[2]
        ordered == SelectSeq(pairs, lower)
    IN  Flatten([k \in 1..Len(ordered) |->
            << <<con.variables[ordered[k][1]], con.variables[ordered[k][2]], ci>>,
               <<con.variables[ordered[k][2]], con.variables[ordered[k][1]], ci>> >>])

getAllArcs(c) ==
    Flatten([ci \in 1..Len(c.constraints) |-> getArcs(c.constraints[ci], ci)])

isComplete(c) == \A p \in DOMAIN c.vars : isAssigned(c.vars[p])

isConsistent(c) == \A ci \in 1..Len(c.constraints) : isSatisfied(c.constraints[ci], c.vars)

toSolutionArray(c) ==
    Explicit([r \in 1..c.rows |-> [k \in 1..c.cols |-> c.vars[<<r - 1, k - 1>>].value]])

(***************************************************************************)
(* AC-3: ac3Algorithm, revise, existsConsistentValue,                      *)
(* isConsistentAssignment.  vs is the variables map of the CSP.            *)
(***************************************************************************)
\* a Set of values iterates in insertion order, which is always ascending here
DomainSeq(d) == SelectSeq(<<Empty, Filled>>, LAMBDA v : v \in d)

\* a faulty isConsistentAssignment that leaves xi and xj at the values tested
isConsistentAssignmentNoRestore(vs, xi, xiValue, xj, xjValue, con) ==
    LET tmp == [vs EXCEPT ![xi].value = xiValue, ![xj].value = xjValue]
    IN  [satisfied |-> isSatisfied(con, tmp), vars |-> tmp]

\* assigns xi and xj for the test, then puts back the saved value of every
\* variable of the constraint
isConsistentAssignment(vs, xi, xiValue, xj, xjValue, con) ==
    LET tmp == [vs EXCEPT ![xi].value = xiValue, ![xj].value = xjValue]
        satisfied == isSatisfied(con, tmp)
        restored == Explicit([p \in DOMAIN tmp |->
                        IF p \in Range(con.variables)
                        THEN [tmp[p] EXCEPT !.value = vs[p].value]
                        ELSE tmp[p]])
    IN  [satisfied |-> satisfied, vars |-> restored]

RECURSIVE ecvScan(_, _, _, _, _, _)
ecvScan(vs, xi, xiValue, xj, con, ws) ==
    IF ws = <<>>
    THEN [exists |-> FALSE, vars |-> vs]
    ELSE Once(isConsistentAssignment(vs, xi, xiValue, xj, Head(ws), con),
              LAMBDA r :
                 IF r.satisfied
                 THEN [exists |-> TRUE, vars |-> r.vars]
                 ELSE ecvScan(r.vars, xi, xiValue, xj, con, Tail(ws)))

\* a faulty existsConsistentValue that tries both values for xj, whatever its
\* domain
existsConsistentValueAnyW(vs, xi, xiValue, xj, con) ==
    ecvScan(vs, xi, xiValue, xj, con, <<Empty, Filled>>)

existsConsistentValue(vs, xi, xiValue, xj, con) ==
    ecvScan(vs, xi, xiValue, xj, con, DomainSeq(vs[xj].domain))

RECURSIVE reviseScan(_, _, _, _, _, _)
reviseScan(vs, xi, xj, con, values, revised) ==
    IF values = <<>>
    THEN [revised |-> revised, vars |-> vs]
    ELSE IF isAssigned(vs[xi]) /\ vs[xi].value # Head(values)
    THEN reviseScan(vs, xi, xj, con, Tail(values), revised)
    ELSE Once(existsConsistentValue(vs, xi, Head(values), xj, con),
              LAMBDA e :
                 IF ~e.exists
                 THEN reviseScan([e.vars EXCEPT ![xi].domain = @ \ {Head(values)}],
                                 xi, xj, con, Tail(values), TRUE)
                 ELSE reviseScan(e.vars, xi, xj, con, Tail(values), revised))

revise(vs, xi, xj, con) ==
    reviseScan(vs, xi, xj, con, DomainSeq(vs[xi].domain), FALSE)

\* the arcs pushed after xi's domain shrank: for every constraint of xi,
\* every variable xk of it other than xi and xj
Requeue(c, xi, xj) ==
    LET cs == ConstraintsOf(c, xi)
    IN  Flatten([k \in 1..Len(cs) |->
            LET vars_k == c.constraints[cs[k]].variables
                other(x) == x # xi /\ x # xj
                xks == SelectSeq(vars_k, other)
            IN  [m \in 1..Len(xks) |-> <<xks[m], xi, cs[k]>>]])

\* the state of one run of ac3Algorithm: the variables, the queue, the
\* counter, the governor, and once the function has returned (done) its
\* return value (ret) and the governor limit that broke the loop (kind)
Ac3Start(c, g) ==
    [vars |-> c.vars, queue |-> getAllArcs(c), iterations |-> 0, g |-> g,
     done |-> FALSE, ret |-> FALSE, kind |-> "none"]

\* one evaluation of the while condition and, if it holds, one loop body
ac3Iteration(c, s, t) ==
    IF ~(Len(s.queue) > 0 /\ s.iterations < Ac3MaxIterations)
    THEN [s EXCEPT !.done = TRUE, !.ret = s.iterations < Ac3MaxIterations]
    ELSE LET st == shouldStop(s.g, t)
             xi == Head(s.queue)[1]
             xj == Head(s.queue)[2]
             ci == Head(s.queue)[3]
         IN  IF st.ret
             THEN [s EXCEPT !.done = TRUE, !.g = st.g, !.kind = st.kind,
                            !.ret = s.iterations < Ac3MaxIterations]
             ELSE Once(revise(s.vars, xi, xj, c.constraints[ci]), LAMBDA rv :
                     IF rv.revised /\ rv.vars[xi].domain = {}
                     THEN [s EXCEPT !.done = TRUE, !.ret = FALSE, !.g = st.g,
                                    !.vars = rv.vars, !.queue = Tail(s.queue),
                                    !.iterations = @ + 1]
                     ELSE [s EXCEPT !.g = st.g, !.vars = rv.vars,
                                    !.iterations = @ + 1,
                                    !.queue = IF rv.revised
                                              THEN Tail(s.queue) \o Requeue(c, xi, xj)
                                              ELSE Tail(s.queue)])

\* n iterations of the loop from s, or fewer if the function returns earlier
RECURSIVE ac3Loop(_, _, _, _)
ac3Loop(c, s, t, n) ==
    IF s.done \/ n = 0
    THEN s
    ELSE IF n = 1
    THEN ac3Iteration(c, s, t)
    ELSE Once(ac3Loop(c, s, t, n \div 2), LAMBDA half :
            ac3Loop(c, half, t, n - (n \div 2)))

\* the loop runs at most Ac3MaxIterations bodies and one more test
ac3Algorithm(c, g, t) ==
    Once(c, LAMBDA c0 :
        Once(Ac3Start(c0, g), LAMBDA s0 : ac3Loop(c0, s0, t, Ac3MaxIterations + 1)))

(***************************************************************************)
(* Search helpers of the CSP engine                                        *)
(***************************************************************************)
RECURSIVE mcvScan(_, _, _, _, _)
mcvScan(c, cells, bestVar, minDomainSize, maxConstraints) ==
    IF cells = <<>>
    THEN bestVar
    ELSE LET p == Head(cells)
             domainSize == Cardinality(c.vars[p].domain)
             constraintCount == Len(ConstraintsOf(c, p))
         IN  IF /\ ~isAssigned(c.vars[p])
                /\ \/ minDomainSize = -1
                   \/ domainSize < minDomainSize
                   \/ (domainSize = minDomainSize /\ constraintCount > maxConstraints)
             THEN mcvScan(c, Tail(cells), <<p>>, domainSize, constraintCount)
             ELSE mcvScan(c, Tail(cells), bestVar, minDomainSize, maxConstraints)

\* a faulty selection that takes the first unassigned variable
getMostConstrainedVariableFirst(c) ==
    LET unassigned == SelectSeq(CellSeq(c.rows, c.cols),
                                LAMBDA p : ~isAssigned(c.vars[p]))
    IN  IF unassigned = <<>> THEN <<>> ELSE <<Head(unassigned)>>

\* <<>> for null, <<cell>> for the chosen variable; minDomainSize -1 stands
\* for Infinity
getMostConstrainedVariable(c) ==
    Once(CellSeq(c.rows, c.cols), LAMBDA cells : mcvScan(c, cells, <<>>, -1, -1))

\* a faulty ordering that tries filled before blank
getOrderedValuesFilledFirst(var) == SelectSeq(<<Filled, Empty>>, LAMBDA v : v \in var.domain)

\* values.sort(...): 0 (blank) before 1 (filled)
getOrderedValues(var) == DomainSeq(var.domain)

saveCSPState(c) == c.vars

\* a faulty restoreCSPState that puts back the values and keeps the domains
restoreCSPStateValues(c, state) ==
    [c EXCEPT !.vars = Explicit([p \in DOMAIN state |->
                          [value |-> state[p].value, domain |-> c.vars[p].domain]])]

\* a faulty restoreCSPState that puts back the domains and leaves the values
restoreCSPStateDomains(c, state) ==
    [c EXCEPT !.vars = Explicit([p \in DOMAIN c.vars |->
                            [c.vars[p] EXCEPT !.domain = state[p].domain]])]

restoreCSPState(c, state) == [c EXCEPT !.vars = state]

(***************************************************************************)
(* The count-based engine: analyzeNumberConstraint, analyzeConstraints,    *)
(* basicConstraintPropagation and the helpers of backtrackSolve.  A        *)
(* solution is an array of rows of -1 / 0 / 1.                             *)
(***************************************************************************)
SolAt(sol, p) == sol[p[1] + 1][p[2] + 1]

SetCells(sol, cells, v) ==
    Explicit([r \in 1..Len(sol) |->
        [c \in 1..Len(sol[r]) |-> IF <<r - 1, c - 1>> \in cells THEN v ELSE sol[r][c]]])

CountIn(sol, area, v) == Cardinality({i \in 1..Len(area) : SolAt(sol, area[i]) = v})

\* a faulty analyzeNumberConstraint that fills the whole window, not only its
\* unknown cells
analyzeNumberConstraintWholeArea(row, col, requiredCount, solution) ==
    LET area3x3 == get3x3Area(row, col, Len(solution), Len(solution[1]))
        unknown == CountIn(solution, area3x3, Unknown)
        filled == CountIn(solution, area3x3, Filled)
    IN  IF unknown > 0 /\ filled # requiredCount /\ filled + unknown = requiredCount
        THEN [changed |-> TRUE, solution |-> SetCells(solution, Range(area3x3), Filled)]
        ELSE IF unknown > 0 /\ filled = requiredCount
        THEN [changed |-> TRUE,
              solution |-> SetCells(solution,
                              {p \in Range(area3x3) : SolAt(solution, p) # Filled}, Empty)]
        ELSE [changed |-> FALSE, solution |-> solution]

\* a faulty analyzeNumberConstraint whose first rule also fires on an
\* overfilled window
analyzeNumberConstraintAtLeast(row, col, requiredCount, solution) ==
    LET area3x3 == get3x3Area(row, col, Len(solution), Len(solution[1]))
        unknownCells == {area3x3[i] : i \in {k \in 1..Len(area3x3) :
                                                SolAt(solution, area3x3[k]) = Unknown}}
        filled == CountIn(solution, area3x3, Filled)
        unknown == Cardinality(unknownCells)
    IN  IF filled >= requiredCount
        THEN IF unknown > 0
             THEN [changed |-> TRUE, solution |-> SetCells(solution, unknownCells, Empty)]
             ELSE [changed |-> FALSE, solution |-> solution]
        ELSE IF filled + unknown = requiredCount
        THEN IF unknown > 0
             THEN [changed |-> TRUE, solution |-> SetCells(solution, unknownCells, Filled)]
             ELSE [changed |-> FALSE, solution |-> solution]
        ELSE [changed |-> FALSE, solution |-> solution]

analyzeNumberConstraint(row, col, requiredCount, solution) ==
    LET area3x3 == get3x3Area(row, col, Len(solution), Len(solution[1]))
        unknownCells == {area3x3[i] : i \in {k \in 1..Len(area3x3) :
                                                SolAt(solution, area3x3[k]) = Unknown}}
        filled == CountIn(solution, area3x3, Filled)
        unknown == Cardinality(unknownCells)
    IN  IF filled = requiredCount
        THEN IF unknown > 0
             THEN [changed |-> TRUE, solution |-> SetCells(solution, unknownCells, Empty)]
             ELSE [changed |-> FALSE, solution |-> solution]
        ELSE IF filled + unknown = requiredCount
        THEN IF unknown > 0
             THEN [changed |-> TRUE, solution |-> SetCells(solution, unknownCells, Filled)]
             ELSE [changed |-> FALSE, solution |-> solution]
        ELSE [changed |-> FALSE, solution |-> solution]

RECURSIVE acScan(_, _, _, _)
acScan(grid, cells, solution, changed) ==
    IF cells = <<>>
    THEN [changed |-> changed, solution |-> solution]
    ELSE IF At(grid, Head(cells)[1], Head(cells)[2]) # NullClue
    THEN Once(analyzeNumberConstraint(Head(cells)[1], Head(cells)[2],
                                      At(grid, Head(cells)[1], Head(cells)[2]),
                                      solution),
              LAMBDA a : acScan(grid, Tail(cells), a.solution, changed \/ a.changed))
    ELSE acScan(grid, Tail(cells), solution, changed)

\* one full pass over all constraints
analyzeConstraints(grid, solution) ==
    Once(CellSeq(RowsOf(grid), ColsOf(grid)), LAMBDA cells :
        acScan(grid, cells, solution, FALSE))

\* one pass of analyzeNumberConstraint over the clued cells in the order given
RECURSIVE analyzeConstraintsIn(_, _, _, _)
analyzeConstraintsIn(grid, order, solution, changed) ==
    IF order = <<>>
    THEN [changed |-> changed, solution |-> solution]
    ELSE Once(analyzeNumberConstraint(Head(order)[1], Head(order)[2],
                                      At(grid, Head(order)[1], Head(order)[2]),
                                      solution),
              LAMBDA a : analyzeConstraintsIn(grid, Tail(order), a.solution,
                                              changed \/ a.changed))

\* a faulty fixpoint that stops after its first pass
OnePassIn(grid, order, solution, n) ==
    analyzeConstraintsIn(grid, order, solution, FALSE).solution

\* the passes repeated while one of them changes a cell, n passes at most
RECURSIVE FixpointIn(_, _, _, _)
FixpointIn(grid, order, solution, n) ==
    IF n = 0
    THEN solution
    ELSE Once(analyzeConstraintsIn(grid, order, solution, FALSE), LAMBDA a :
            IF a.changed
            THEN FixpointIn(grid, order, a.solution, n - 1)
            ELSE a.solution)

\* the statement after the loop: if (SolverSafetyManager.shouldStop()) ... else ...
bcpExit(ws, iterationCount, g, t, kind) ==
    Once(shouldStop(g, t), LAMBDA s :
        [solution |-> ws, g |-> s.g, iterations |-> iterationCount,
         kind |-> IF kind # "none" THEN kind ELSE s.kind])

RECURSIVE bcpLoop(_, _, _, _, _, _)
bcpLoop(grid, ws, changed, iterationCount, g, t) ==
    IF ~changed
    THEN bcpExit(ws, iterationCount, g, t, "none")
    ELSE Once(shouldStop(g, t), LAMBDA s :
            IF s.ret
            THEN bcpExit(ws, iterationCount, s.g, t, s.kind)
            ELSE Once(analyzeConstraints(grid, ws), LAMBDA a :
                    IF ~a.changed
                    THEN bcpExit(a.solution, iterationCount + 1, s.g, t, "none")
                    ELSE IF iterationCount + 1 > PropagationIterationCap
                    THEN bcpExit(a.solution, iterationCount + 1, s.g, t, "none")
                    ELSE bcpLoop(grid, a.solution, a.changed, iterationCount + 1,
                                 s.g, t)))

\* a faulty basicConstraintPropagation that hands back no unknown cell
basicConstraintPropagationDefaulting(solution, grid, g, t) ==
    Once(bcpLoop(grid, solution, TRUE, 0, g, t), LAMBDA b :
        [b EXCEPT !.solution = DefaultUnknownToEmpty(@)])

\* returns workingSolution, the governor as it leaves it, the number of full
\* passes made (iterations) and the governor limit met (kind), if any
basicConstraintPropagation(solution, grid, g, t) ==
    Once(g, LAMBDA g0 : bcpLoop(grid, solution, TRUE, 0, g0, t))

isCompletelyResolved(solution) ==
    \A r \in 1..Len(solution) : \A c \in 1..Len(solution[r]) : solution[r][c] # Unknown

countAffectingConstraints(row, col, grid) ==
    LET rows == RowsOf(grid)
        cols == ColsOf(grid)
        lo(x) == IF x - 1 > 0 THEN x - 1 ELSE 0
        hi(x, n) == IF x + 1 < n - 1 THEN x + 1 ELSE n - 1
    IN  Cardinality({p \in (lo(row)..hi(row, rows)) \X (lo(col)..hi(col, cols)) :
                        At(grid, p[1], p[2]) # NullClue})

RECURSIVE fbucScan(_, _, _, _, _)
fbucScan(solution, grid, cells, bestCell, maxConstraints) ==
    IF cells = <<>>
    THEN bestCell
    ELSE LET p == Head(cells)
             constraintCount == countAffectingConstraints(p[1], p[2], grid)
         IN  IF SolAt(solution, p) = Unknown /\ constraintCount > maxConstraints
             THEN fbucScan(solution, grid, Tail(cells), <<p>>, constraintCount)
             ELSE fbucScan(solution, grid, Tail(cells), bestCell, maxConstraints)

\* <<>> for null, <<cell>> for the chosen cell
findBestUnknownCell(solution, grid) ==
    Once(CellSeq(Len(solution), Len(solution[1])), LAMBDA cells :
        fbucScan(solution, grid, cells, <<>>, -1))

\* the contribution of the clue at p to the fill and empty scores of (row, col)
ScoreOf(row, col, solution, grid, p) ==
    LET requiredCount == At(grid, p[1], p[2])
        area3x3 == get3x3Area(p[1], p[2], Len(solution), Len(solution[1]))
        filledCount == Cardinality({i \in 1..Len(area3x3) :
                            /\ area3x3[i] # <<row, col>>
                            /\ SolAt(solution, area3x3[i]) = Filled})
    IN  IF requiredCount = NullClue \/ requiredCount = UndefinedClue
        THEN [fill |-> 0, empty |-> 0]
        ELSE [fill |-> IF filledCount < requiredCount
                       THEN requiredCount - filledCount ELSE 0,
              empty |-> IF filledCount >= requiredCount THEN 2 ELSE 0]

RECURSIVE SumScores(_, _, _, _, _, _)
SumScores(row, col, solution, grid, ps, acc) ==
    IF ps = <<>>
    THEN acc
    ELSE Once(ScoreOf(row, col, solution, grid, Head(ps)), LAMBDA h :
            SumScores(row, col, solution, grid, Tail(ps),
                      [fill |-> acc.fill + h.fill, empty |-> acc.empty + h.empty]))

getSmartValueOrder(row, col, solution, grid) ==
    Once(Once(get3x3Area(row, col, Len(solution), Len(solution[1])), LAMBDA ps :
                  SumScores(row, col, solution, grid, ps, [fill |-> 0, empty |-> 0])),
         LAMBDA score :
            IF score.fill > score.empty THEN <<Filled, Empty>> ELSE <<Empty, Filled>>)

isConsistentWithConstraints(solution, grid) ==
    LET rows == RowsOf(grid)
        cols == ColsOf(grid)
    IN  \A p \in CellSet(rows, cols) :
            LET requiredCount == At(grid, p[1], p[2])
                area3x3 == get3x3Area(p[1], p[2], rows, cols)
                filledCount == CountIn(solution, area3x3, Filled)
                unknownCount == CountIn(solution, area3x3, Unknown)
            IN  \/ requiredCount = NullClue
                \/ requiredCount = UndefinedClue
                \/ ~(filledCount > requiredCount \/ filledCount + unknownCount < requiredCount)

isValidSolution(solution, grid) ==
    LET rows == RowsOf(grid)
        cols == ColsOf(grid)
    IN  \A p \in CellSet(rows, cols) :
            \/ At(grid, p[1], p[2]) = NullClue
            \/ CountIn(solution, get3x3Area(p[1], p[2], rows, cols), Filled)
                   = At(grid, p[1], p[2])

(***************************************************************************)
(* Inputs and the initial state                                            *)
(***************************************************************************)
ClueSample == {NullClue} \cup (0..MaxClue)

\* the rectangular clue grids of at most MaxCells cells
RectGrids ==
    UNION {[1..d[1] -> [1..d[2] -> ClueSample]] :
            d \in {e \in (1..MaxCells) \X (1..MaxCells) : e[1] * e[2] <= MaxCells}}

\* the budgets a caller sets on SolverSafetyManager before a run: the
\* defaults, an operation cap of 1, an operation cap met in mid-search, and a
\* depth cap met in mid-search
Budgets ==
    {GovernorDefaults,
     [GovernorDefaults EXCEPT !.maxIterations = 1],
     [GovernorDefaults EXCEPT !.maxIterations = 12 * MaxCells],
     [GovernorDefaults EXCEPT !.maxRecursionDepth = 2]}

NullRet == [ok |-> FALSE, grid |-> <<>>]
NoCall == [op |-> "none", ret |-> FALSE, clock |-> FALSE, stopped |-> FALSE]
NoPasses == [iterations |-> 0, opsBefore |-> 0, opsAfter |-> 0, kind |-> "none",
             timedOut |-> FALSE]

\* what executeNextStep returned: success, completed, and the number of cells
\* the call found newly determined (-1 when the return carries no count)
NoProbe == [op |-> "none", args |-> <<>>, out |-> <<>>]

NoStepResult == [success |-> FALSE, completed |-> FALSE, newCells |-> -1]

\* stepSolverState = null
NoSession ==
    [active |-> FALSE, solution |-> <<>>, iterationCount |-> 0, isComplete |-> FALSE,
     returned |-> NoStepResult]

\* new MosaicStepController(solution, constraintGrid, puzzleData)
MosaicStepController(solution) ==
    [active |-> TRUE, solution |-> solution, iterationCount |-> 0,
     isComplete |-> FALSE, returned |-> NoStepResult]

\* what the last shouldStop() of an earlier run has left on record: it
\* answered true when the flag is set or the count is above its maximum
LeftCall(g) ==
    IF g.isTimeoutExceeded \/ g.operationCount > g.maxIterations
    THEN [op |-> "shouldStop", ret |-> TRUE, clock |-> ~g.isTimeoutExceeded,
          stopped |-> TRUE]
    ELSE NoCall

InitFrom(grids, governors) ==
    /\ constraintGrid \in grids
    /\ gov \in governors
    /\ now = 1
    /\ lastCall = LeftCall(gov)
    /\ csp = NoCSP
    /\ engine = "none"
    /\ pc = "idle"
    /\ stack = <<>>
    /\ arg = <<>>
    /\ basic = <<>>
    /\ ret = NullRet
    /\ result = <<>>
    /\ reason = "none"
    /\ trip = "none"
    /\ passes = NoPasses
    /\ stepSolverState = NoSession
    /\ progress = <<>>
    /\ probe = NoProbe

InitWith(grids) == InitFrom(grids, Budgets)

Init == InitWith(RectGrids)

(***************************************************************************)
(* Progress events: progressCallback(percentage, resolvedCells, totalCells) *)
(***************************************************************************)
\* Math.trunc in place of Math.round
MathTrunc(num, den) == num \div den

\* Math.round(num / den) for num >= 0, den > 0: the nearest integer, a half
\* rounded up
MathRound(num, den) == (2 * num + den) \div (2 * den)

\* solution.flat().filter(cell => cell !== -1).length
ResolvedCells(solution) ==
    Cardinality({p \in CellSet(Len(solution), Len(solution[1])) :
                    SolAt(solution, p) # Unknown})

\* one call of progressCallback; seen is the grid the caller had at hand
ProgressEvent(percentage, resolvedCells, totalCells, seen) ==
    [percentage |-> percentage, resolvedCells |-> resolvedCells,
     totalCells |-> totalCells, seen |-> seen]

\* the wrapper solveMosaicCSP hands to macBacktrackSearch, and the same
\* computation on the partial solution
wrappedProgressCallback(solution) ==
    Once(Len(solution) * Len(solution[1]), LAMBDA totalCells :
        Once(ResolvedCells(solution), LAMBDA resolvedCells :
            ProgressEvent(MathRound(resolvedCells * 100, totalCells),
                          resolvedCells, totalCells, solution)))

\* updateProgress of mosaicConstraintPropagation; totalCells is computed once
\* from the solution parameter
updateProgress(currentSolution, solution) ==
    Once(Len(solution) * Len(solution[1]), LAMBDA totalCells :
        Once(ResolvedCells(currentSolution), LAMBDA resolvedCells :
            ProgressEvent(MathRound(resolvedCells * 100, totalCells),
                          resolvedCells, totalCells, currentSolution)))

\* progressCallback(100, totalCells, totalCells)
FinalEvent(solution) ==
    ProgressEvent(100, Len(solution) * Len(solution[1]),
                  Len(solution) * Len(solution[1]), solution)

\* the working solutions basicConstraintPropagation hands to its
\* progressCallback: one after each pass
RECURSIVE PassesSeen(_, _, _, _, _)
PassesSeen(grid, solution, ws, n, acc) ==
    IF n = 0
    THEN acc
    ELSE Once(analyzeConstraints(grid, ws).solution, LAMBDA a :
            Once(Append(acc, updateProgress(a, solution)), LAMBDA events :
                PassesSeen(grid, solution, a, n - 1, events)))

\* the events of one basicConstraintPropagation call that made b.iterations
\* passes from solution
PassEvents(grid, solution, b) ==
    Once(b.iterations, LAMBDA n : PassesSeen(grid, solution, solution, n, <<>>))

FirstTrip(old, kind) == IF old = "none" THEN kind ELSE old

\* one invocation of macBacktrack or backtrackSolve inside its value loop:
\* the chosen cell, the values still to try, the state saved before the
\* value being tried, and ws, the state the invocation was entered with (the
\* variables of the CSP, or the working solution of backtrackSolve)
Frame(cell, values, saved, ws) ==
    [cell |-> cell, values |-> values, saved |-> saved, ws |-> ws]

Top == stack[Len(stack)]
Pop == SubSeq(stack, 1, Len(stack) - 1)
ReplaceTop(f) == [stack EXCEPT ![Len(stack)] = f]

(***************************************************************************)
(* The CSP engine: solveMosaicAlgorithm (non-step) -> solveMosaicCSP ->    *)
(* macBacktrackSearch -> macBacktrack                                      *)
(***************************************************************************)
\* solveMosaicAlgorithm resets the governor, solveMosaicCSP builds the CSP and
\* macBacktrackSearch runs the AC-3 preprocessing
SolveCSP ==
    /\ pc = "idle"
    /\ \E c0 \in {MosaicCSP(constraintGrid)} :
       \E ac \in {ac3Algorithm(c0, reset(gov, now), now)} :
          /\ engine' = "csp"
          /\ csp' = [c0 EXCEPT !.vars = ac.vars]
          /\ gov' = ac.g
          /\ trip' = ac.kind
          /\ pc' = IF ac.ret THEN "mac_enter" ELSE "mac_ret"
    /\ ret' = NullRet
    /\ stack' = <<>>
    /\ UNCHANGED <<constraintGrid, probe, stepSolverState, progress, now, lastCall, arg, basic, result, reason, passes>>

\* macBacktrack from its entry to the start of the value loop
MacEnter ==
    /\ pc = "mac_enter"
    /\ \E s \in {shouldStop(gov, now)} :
       \E e \in {enterRecursion(s.g)} :
       \E v \in {getMostConstrainedVariable(csp)} :
          IF s.ret
          THEN /\ gov' = s.g
               /\ trip' = FirstTrip(trip, s.kind)
               /\ ret' = NullRet
               /\ pc' = "mac_ret"
               /\ stack' = stack
               /\ progress' = progress
          ELSE IF e.ret
          THEN /\ gov' = e.g
               /\ trip' = FirstTrip(trip, "depth")
               /\ ret' = NullRet
               /\ pc' = "mac_exceeded"
               /\ stack' = stack
               /\ progress' = progress
          ELSE IF isComplete(csp)
          THEN /\ gov' = exitRecursion(e.g)
               /\ trip' = trip
               /\ ret' = [ok |-> TRUE, grid |-> toSolutionArray(csp)]
               /\ pc' = "mac_ret"
               /\ stack' = stack
               /\ progress' = <<wrappedProgressCallback(toSolutionArray(csp))>>
          ELSE IF v = <<>>
          THEN /\ gov' = exitRecursion(e.g)
               /\ trip' = trip
               /\ ret' = NullRet
               /\ pc' = "mac_ret"
               /\ stack' = stack
               /\ progress' = <<wrappedProgressCallback(toSolutionArray(csp))>>
          ELSE /\ gov' = e.g
               /\ trip' = trip
               /\ ret' = NullRet
               /\ pc' = "mac_loop"
               /\ stack' = Append(stack,
                       Frame(v[1], getOrderedValues(csp.vars[v[1]]), <<>>, csp.vars))
               /\ progress' = <<wrappedProgressCallback(toSolutionArray(csp))>>
    /\ UNCHANGED <<constraintGrid, probe, stepSolverState, now, lastCall, csp, engine, arg, basic, result,
                   reason, passes>>

\* enterRecursion() answered true: exitRecursion() and return null
MacExceeded ==
    /\ pc = "mac_exceeded"
    /\ gov' = exitRecursion(gov)
    /\ ret' = NullRet
    /\ pc' = "mac_ret"
    /\ UNCHANGED <<constraintGrid, probe, stepSolverState, progress, now, lastCall, csp, engine, stack, arg, basic,
                   result, reason, trip, passes>>

\* the value loop of macBacktrack: the loop's end, its break, or one value tried
\* up to the recursive call
MacTry ==
    /\ pc = "mac_loop"
    /\ IF Top.values = <<>>
       THEN /\ gov' = exitRecursion(gov)
            /\ trip' = trip
            /\ csp' = csp
            /\ stack' = Pop
            /\ pc' = "mac_ret"
       ELSE \E top \in {Top} :
            \E s \in {shouldStop(gov, now)} :
            \E savedState \in {saveCSPState(csp)} :
            \E a \in {assign(csp.vars[top.cell], Head(top.values))} :
               IF s.ret
               THEN /\ gov' = exitRecursion(s.g)
                    /\ trip' = FirstTrip(trip, s.kind)
                    /\ csp' = csp
                    /\ stack' = Pop
                    /\ pc' = "mac_ret"
               ELSE IF ~a.ok
               THEN /\ gov' = s.g
                    /\ trip' = trip
                    /\ csp' = restoreCSPState(csp, savedState)
                    /\ stack' = ReplaceTop([top EXCEPT !.values = Tail(@)])
                    /\ pc' = "mac_loop"
               ELSE \E c1 \in {[csp EXCEPT !.vars[top.cell] = a.var]} :
                    \E ac \in {ac3Algorithm(c1, s.g, now)} :
                       /\ gov' = ac.g
                       /\ trip' = FirstTrip(trip, ac.kind)
                       /\ IF ac.ret
                          THEN /\ csp' = [c1 EXCEPT !.vars = ac.vars]
                               /\ stack' = ReplaceTop([top EXCEPT !.saved = savedState])
                               /\ pc' = "mac_enter"
                          ELSE /\ csp' = restoreCSPState(csp, savedState)
                               /\ stack' = ReplaceTop([top EXCEPT !.values = Tail(@)])
                               /\ pc' = "mac_loop"
    /\ ret' = NullRet
    /\ UNCHANGED <<constraintGrid, probe, stepSolverState, progress, now, lastCall, engine, arg, basic, result, reason,
                   passes>>

\* the recursive call came back into the value loop of its caller
MacReturn ==
    /\ pc = "mac_ret"
    /\ stack # <<>>
    /\ IF ret.ok
       THEN /\ gov' = exitRecursion(gov)
            /\ stack' = Pop
            /\ csp' = csp
            /\ pc' = "mac_ret"
       ELSE /\ gov' = gov
            /\ csp' = restoreCSPState(csp, Top.saved)
            /\ stack' = ReplaceTop([Top EXCEPT !.values = Tail(@)])
            /\ pc' = "mac_loop"
    /\ UNCHANGED <<constraintGrid, probe, stepSolverState, progress, now, lastCall, engine, arg, basic, ret, result,
                   reason, trip, passes>>

\* a faulty solveMosaicCSP whose failure branch returns nothing
CspFinishOnlySolved ==
    /\ pc = "mac_ret"
    /\ stack = <<>>
    /\ ret.ok
    /\ result' = DefaultUnknownToEmpty(ret.grid)
    /\ reason' = "solved"
    /\ progress' = <<FinalEvent(ret.grid)>>
    /\ pc' = "done"
    /\ UNCHANGED <<constraintGrid, probe, stepSolverState, gov, now, lastCall, csp, engine, stack, arg, basic,
                   ret, trip, passes>>

\* the rest of solveMosaicCSP once macBacktrackSearch has returned
CspFinish ==
    /\ pc = "mac_ret"
    /\ stack = <<>>
    /\ IF ret.ok
       THEN /\ result' = DefaultUnknownToEmpty(ret.grid)
            /\ reason' = "solved"
            /\ progress' = <<FinalEvent(ret.grid)>>
       ELSE /\ result' = DefaultUnknownToEmpty(toSolutionArray(csp))
            /\ reason' = IF gov.isTimeoutExceeded
                         THEN "timeout" ELSE "no solution or safety limit"
            /\ progress' = <<wrappedProgressCallback(toSolutionArray(csp))>>
    /\ pc' = "done"
    /\ UNCHANGED <<constraintGrid, probe, stepSolverState, gov, now, lastCall, csp, engine, stack, arg, basic,
                   ret, trip, passes>>

(***************************************************************************)
(* The count-based engine: mosaicConstraintPropagation ->                  *)
(* basicConstraintPropagation, backtrackSolve                              *)
(***************************************************************************)
PassesOf(b, g0) ==
    [iterations |-> b.iterations, opsBefore |-> g0.operationCount,
     opsAfter |-> b.g.operationCount, kind |-> b.kind,
     timedOut |-> b.g.isTimeoutExceeded]

\* mosaicConstraintPropagation on an all-unknown solution, from its reset()
\* to its first return or to its call of backtrackSolve
SolveCount ==
    /\ pc = "idle"
    /\ \E sol0 \in {FilledArray(RowsOf(constraintGrid), ColsOf(constraintGrid),
                                 Unknown)} :
       \E g0 \in {reset(gov, now)} :
       \E b \in {basicConstraintPropagation(sol0, constraintGrid, g0, now)} :
       \E s \in {shouldStop(b.g, now)} :
          /\ engine' = "count"
          /\ gov' = s.g
          /\ basic' = b.solution
          /\ passes' = PassesOf(b, g0)
          /\ trip' = FirstTrip(b.kind, s.kind)
          /\ IF s.ret
             THEN /\ result' = DefaultUnknownToEmpty(b.solution)
                  /\ reason' = "propagation stopped by safety limit"
                  /\ arg' = <<>>
                  /\ pc' = "done"
                  /\ progress' = Append(PassEvents(constraintGrid, sol0, b),
                                        updateProgress(b.solution, sol0))
             ELSE IF isCompletelyResolved(b.solution)
             THEN /\ result' = DefaultUnknownToEmpty(b.solution)
                  /\ reason' = "solved"
                  /\ arg' = <<>>
                  /\ pc' = "done"
                  /\ progress' = PassEvents(constraintGrid, sol0, b)
                                    \o <<updateProgress(b.solution, sol0),
                                         FinalEvent(b.solution)>>
             ELSE /\ result' = result
                  /\ reason' = reason
                  /\ arg' = b.solution
                  /\ pc' = "bt_enter"
                  /\ progress' = Append(PassEvents(constraintGrid, sol0, b),
                                        updateProgress(b.solution, sol0))
    /\ stack' = <<>>
    /\ ret' = NullRet
    /\ UNCHANGED <<constraintGrid, probe, stepSolverState, now, lastCall, csp>>

\* backtrackSolve from its entry to the start of the value loop
BtEnter ==
    /\ pc = "bt_enter"
    /\ \E s \in {shouldStop(gov, now)} :
       \E e \in {enterRecursion(s.g)} :
       \E workingSolution \in {arg} :
       \E unknownCell \in {findBestUnknownCell(workingSolution, constraintGrid)} :
          IF s.ret
          THEN /\ gov' = s.g
               /\ trip' = FirstTrip(trip, s.kind)
               /\ ret' = NullRet
               /\ pc' = "bt_ret"
               /\ stack' = stack
          ELSE IF e.ret
          THEN /\ gov' = e.g
               /\ trip' = FirstTrip(trip, "depth")
               /\ ret' = NullRet
               /\ pc' = "bt_exceeded"
               /\ stack' = stack
          ELSE IF unknownCell = <<>>
          THEN /\ gov' = exitRecursion(e.g)
               /\ trip' = trip
               /\ ret' = IF isValidSolution(workingSolution, constraintGrid)
                         THEN [ok |-> TRUE, grid |-> workingSolution]
                         ELSE NullRet
               /\ pc' = "bt_ret"
               /\ stack' = stack
          ELSE \E row \in {unknownCell[1][1]} :
               \E col \in {unknownCell[1][2]} :
               \E valueOrder \in {getSmartValueOrder(row, col, workingSolution,
                                                     constraintGrid)} :
                  /\ gov' = e.g
                  /\ trip' = trip
                  /\ ret' = NullRet
                  /\ pc' = "bt_loop"
                  /\ stack' = Append(stack,
                          Frame(<<row, col>>, valueOrder, <<>>, workingSolution))
    /\ UNCHANGED <<constraintGrid, probe, stepSolverState, progress, now, lastCall, csp, engine, arg, basic, result,
                   reason, passes>>

\* enterRecursion() answered true: exitRecursion() and return null
BtExceeded ==
    /\ pc = "bt_exceeded"
    /\ gov' = exitRecursion(gov)
    /\ ret' = NullRet
    /\ pc' = "bt_ret"
    /\ UNCHANGED <<constraintGrid, probe, stepSolverState, progress, now, lastCall, csp, engine, stack, arg, basic,
                   result, reason, trip, passes>>

\* the value loop of backtrackSolve: the loop's end, its break, or one value
\* tried up to the recursive call
BtTry ==
    /\ pc = "bt_loop"
    /\ IF Top.values = <<>>
       THEN /\ gov' = exitRecursion(gov)
            /\ trip' = trip
            /\ stack' = Pop
            /\ arg' = arg
            /\ passes' = passes
            /\ pc' = "bt_ret"
            /\ progress' = progress
       ELSE \E top \in {Top} :
            \E s \in {shouldStop(gov, now)} :
            \E assumed \in {SetCells(top.ws, {top.cell}, Head(top.values))} :
               IF s.ret
               THEN /\ gov' = exitRecursion(s.g)
                    /\ trip' = FirstTrip(trip, s.kind)
                    /\ stack' = Pop
                    /\ arg' = arg
                    /\ passes' = passes
                    /\ pc' = "bt_ret"
                    /\ progress' = progress
               ELSE IF ~isConsistentWithConstraints(assumed, constraintGrid)
               THEN /\ gov' = s.g
                    /\ trip' = trip
                    /\ stack' = ReplaceTop([top EXCEPT !.values = Tail(@)])
                    /\ arg' = arg
                    /\ passes' = passes
                    /\ pc' = "bt_loop"
                    /\ progress' = <<updateProgress(assumed, top.ws),
                                     updateProgress(top.ws, top.ws)>>
               ELSE \E b \in {basicConstraintPropagation(assumed, constraintGrid,
                                                         s.g, now)} :
                    \E s2 \in {shouldStop(b.g, now)} :
                       /\ gov' = s2.g
                       /\ trip' = FirstTrip(FirstTrip(trip, b.kind), s2.kind)
                       /\ passes' = PassesOf(b, s.g)
                       /\ IF /\ ~s2.ret
                             /\ isConsistentWithConstraints(b.solution, constraintGrid)
                          THEN /\ stack' = stack
                               /\ arg' = b.solution
                               /\ pc' = "bt_enter"
                               /\ progress' =
                                     <<updateProgress(assumed, top.ws)>>
                                        \o PassEvents(constraintGrid, assumed, b)
                          ELSE /\ stack' = ReplaceTop([top EXCEPT !.values = Tail(@)])
                               /\ arg' = arg
                               /\ pc' = "bt_loop"
                               /\ progress' =
                                     <<updateProgress(assumed, top.ws)>>
                                        \o PassEvents(constraintGrid, assumed, b)
                                        \o <<updateProgress(top.ws, top.ws)>>
    /\ ret' = NullRet
    /\ UNCHANGED <<constraintGrid, probe, stepSolverState, now, lastCall, csp, engine, basic, result, reason>>

\* the recursive call came back into the value loop of its caller
BtReturn ==
    /\ pc = "bt_ret"
    /\ stack # <<>>
    /\ IF ret.ok
       THEN /\ gov' = exitRecursion(gov)
            /\ stack' = Pop
            /\ pc' = "bt_ret"
            /\ progress' = progress
       ELSE /\ gov' = gov
            /\ stack' = ReplaceTop([Top EXCEPT !.values = Tail(@)])
            /\ pc' = "bt_loop"
            /\ progress' = <<updateProgress(Top.ws, Top.ws)>>
    /\ UNCHANGED <<constraintGrid, probe, stepSolverState, now, lastCall, csp, engine, arg, basic, ret, result,
                   reason, trip, passes>>

\* the rest of mosaicConstraintPropagation once backtrackSolve has returned
CountFinish ==
    /\ pc = "bt_ret"
    /\ stack = <<>>
    /\ \E s \in {shouldStop(gov, now)} :
           IF ret.ok
           THEN /\ gov' = s.g
                /\ trip' = FirstTrip(trip, s.kind)
                /\ progress' = <<updateProgress(ret.grid, basic)>>
                /\ IF ~s.ret
                   THEN /\ result' = DefaultUnknownToEmpty(ret.grid)
                        /\ reason' = "solved"
                   ELSE /\ result' = DefaultUnknownToEmpty(basic)
                        /\ reason' = IF s.g.isTimeoutExceeded
                                     THEN "timeout" ELSE "no solution or safety limit"
           ELSE /\ gov' = gov
                /\ trip' = trip
                /\ result' = DefaultUnknownToEmpty(basic)
                /\ reason' = IF gov.isTimeoutExceeded
                             THEN "timeout" ELSE "no solution or safety limit"
                /\ progress' = <<updateProgress(basic, basic)>>
    /\ pc' = "done"
    /\ UNCHANGED <<constraintGrid, probe, stepSolverState, now, lastCall, csp, engine, stack, arg, basic, ret,
                   passes>>

(***************************************************************************)
(* The clock                                                               *)
(***************************************************************************)
Running == pc \notin {"idle", "done", "driver"}

\* the time budget runs out while a solve call is running
Tick ==
    /\ Running
    /\ now <= gov.startTime + gov.maxTimeMs
    /\ now' = gov.startTime + gov.maxTimeMs + 1
    /\ UNCHANGED <<constraintGrid, probe, stepSolverState, progress, gov, lastCall, csp, engine, pc, stack, arg, basic,
                   ret, result, reason, trip, passes>>

Next ==
    \/ SolveCSP
    \/ MacEnter
    \/ MacExceeded
    \/ MacTry
    \/ MacReturn
    \/ CspFinish
    \/ SolveCount
    \/ BtEnter
    \/ BtExceeded
    \/ BtTry
    \/ BtReturn
    \/ CountFinish
    \/ Tick

Spec == Init /\ [][Next]_vars

\* the clue grids of at most MaxLiveCells cells
LiveGrids == {g \in RectGrids : RowsOf(g) * ColsOf(g) <= MaxLiveCells}

\* the solver runs synchronously to completion: a step that can be taken is taken
SpecLive == InitWith(LiveGrids) /\ [][Next]_vars /\ WF_vars(Next)

\* the governor as an earlier run can leave it: untouched, timed out, over
\* its operation cap, or with a depth that was written from outside
LeftBy(b) ==
    {b,
     [b EXCEPT !.startTime = 0 - b.maxTimeMs, !.isTimeoutExceeded = TRUE,
               !.operationCount = 1],
     [b EXCEPT !.startTime = 0 - b.maxTimeMs, !.operationCount = b.maxIterations + 1],
     [b EXCEPT !.startTime = 0 - b.maxTimeMs, !.currentDepth = b.maxRecursionDepth + 1]}

LeftGovernors == UNION {LeftBy(b) : b \in Budgets}

\* a solve call that follows an earlier run
SpecRerun == InitFrom(LiveGrids, LeftGovernors) /\ [][Next]_vars

(***************************************************************************)
(* Two solves of the same clue grid, one after the other: probe keeps what *)
(* the first one returned                                                  *)
(***************************************************************************)
SolveReturned ==
    /\ pc = "done"
    /\ probe.op = "none"
    /\ probe' = [op |-> engine, args |-> <<constraintGrid>>,
                 out |-> [result |-> result, reason |-> reason, trip |-> trip]]
    /\ pc' = "idle"
    /\ UNCHANGED <<constraintGrid, stepSolverState, progress, gov, now, lastCall, csp,
                   engine, stack, arg, basic, ret, result, reason, trip, passes>>

NextBoth ==
    \/ Next
    \/ SolveReturned

SpecBoth == InitFrom(LiveGrids, Budgets) /\ [][NextBoth]_vars

(***************************************************************************)
(* The same engine run twice on a clue grid under the default budgets: the *)
(* first run tries the values in the order the code gives them, the second *)
(* in that order or the opposite one at each search node                   *)
(***************************************************************************)
\* the sequence of values and the same values in the opposite order
EitherOrder(values) ==
    {values, [i \in 1..Len(values) |-> values[Len(values) + 1 - i]]}

\* macBacktrack up to its value loop, with the values in either order
MacEnterEitherOrder ==
    /\ pc = "mac_enter"
    /\ \E s \in {shouldStop(gov, now)} :
       \E e \in {enterRecursion(s.g)} :
       \E v \in {getMostConstrainedVariable(csp)} :
          IF s.ret
          THEN /\ gov' = s.g
               /\ trip' = FirstTrip(trip, s.kind)
               /\ ret' = NullRet
               /\ pc' = "mac_ret"
               /\ stack' = stack
               /\ progress' = progress
          ELSE IF e.ret
          THEN /\ gov' = e.g
               /\ trip' = FirstTrip(trip, "depth")
               /\ ret' = NullRet
               /\ pc' = "mac_exceeded"
               /\ stack' = stack
               /\ progress' = progress
          ELSE IF isComplete(csp)
          THEN /\ gov' = exitRecursion(e.g)
               /\ trip' = trip
               /\ ret' = [ok |-> TRUE, grid |-> toSolutionArray(csp)]
               /\ pc' = "mac_ret"
               /\ stack' = stack
               /\ progress' = <<wrappedProgressCallback(toSolutionArray(csp))>>
          ELSE IF v = <<>>
          THEN /\ gov' = exitRecursion(e.g)
               /\ trip' = trip
               /\ ret' = NullRet
               /\ pc' = "mac_ret"
               /\ stack' = stack
               /\ progress' = <<wrappedProgressCallback(toSolutionArray(csp))>>
          ELSE /\ gov' = e.g
               /\ trip' = trip
               /\ ret' = NullRet
               /\ pc' = "mac_loop"
               /\ \E values \in EitherOrder(getOrderedValues(csp.vars[v[1]])) :
                     stack' = Append(stack, Frame(v[1], values, <<>>, csp.vars))
               /\ progress' = <<wrappedProgressCallback(toSolutionArray(csp))>>
    /\ UNCHANGED <<constraintGrid, probe, stepSolverState, now, lastCall, csp, engine, arg, basic, result,
                   reason, passes>>

\* backtrackSolve up to its value loop, with the values in either order
BtEnterEitherOrder ==
    /\ pc = "bt_enter"
    /\ \E s \in {shouldStop(gov, now)} :
       \E e \in {enterRecursion(s.g)} :
       \E workingSolution \in {arg} :
       \E unknownCell \in {findBestUnknownCell(workingSolution, constraintGrid)} :
          IF s.ret
          THEN /\ gov' = s.g
               /\ trip' = FirstTrip(trip, s.kind)
               /\ ret' = NullRet
               /\ pc' = "bt_ret"
               /\ stack' = stack
          ELSE IF e.ret
          THEN /\ gov' = e.g
               /\ trip' = FirstTrip(trip, "depth")
               /\ ret' = NullRet
               /\ pc' = "bt_exceeded"
               /\ stack' = stack
          ELSE IF unknownCell = <<>>
          THEN /\ gov' = exitRecursion(e.g)
               /\ trip' = trip
               /\ ret' = IF isValidSolution(workingSolution, constraintGrid)
                         THEN [ok |-> TRUE, grid |-> workingSolution]
                         ELSE NullRet
               /\ pc' = "bt_ret"
               /\ stack' = stack
          ELSE \E row \in {unknownCell[1][1]} :
               \E col \in {unknownCell[1][2]} :
               \E valueOrder \in EitherOrder(getSmartValueOrder(row, col,
                                                  workingSolution, constraintGrid)) :
                  /\ gov' = e.g
                  /\ trip' = trip
                  /\ ret' = NullRet
                  /\ pc' = "bt_loop"
                  /\ stack' = Append(stack,
                          Frame(<<row, col>>, valueOrder, <<>>, workingSolution))
    /\ UNCHANGED <<constraintGrid, probe, stepSolverState, progress, now, lastCall, csp, engine, arg, basic, result,
                   reason, passes>>

NextOrder ==
    \/ SolveCSP
    \/ probe.op = "none" /\ MacEnter
    \/ probe.op # "none" /\ MacEnterEitherOrder
    \/ MacTry
    \/ MacReturn
    \/ CspFinish
    \/ SolveCount
    \/ probe.op = "none" /\ BtEnter
    \/ probe.op # "none" /\ BtEnterEitherOrder
    \/ BtTry
    \/ BtReturn
    \/ CountFinish
    \/ SolveReturned

SpecOrder == InitFrom(RectGrids, {GovernorDefaults}) /\ [][NextOrder]_vars

(***************************************************************************)
(* The step session: solveMosaicAlgorithm in step mode and                 *)
(* MosaicStepController.executeNextStep                                    *)
(***************************************************************************)
\* solveMosaicAlgorithm(constraintGrid, true, puzzleData)
SolveStepByStep ==
    /\ pc = "idle"
    /\ \E solution \in {FilledArray(RowsOf(constraintGrid), ColsOf(constraintGrid),
                                     Unknown)} :
          /\ stepSolverState' = MosaicStepController(solution)
          /\ result' = solution
    /\ gov' = reset(gov, now)
    /\ engine' = "step"
    /\ pc' = "stepping"
    /\ UNCHANGED <<constraintGrid, probe, progress, now, lastCall, csp, stack, arg, basic, ret, reason,
                   trip, passes>>

\* the cells Unknown in before and determined in after
NewCells(before, after) ==
    {p \in CellSet(Len(after), Len(after[1])) :
        SolAt(before, p) = Unknown /\ SolAt(after, p) # Unknown}

\* a faulty executeNextStep that runs the passes to their fixpoint
ExecuteToFixpoint ==
    /\ pc = "stepping"
    /\ stepSolverState.active
    /\ ~stepSolverState.isComplete
    /\ \E beforeState \in {stepSolverState.solution} :
       \E b \in {basicConstraintPropagation(beforeState, constraintGrid, gov, now)} :
          stepSolverState' =
             [stepSolverState EXCEPT
                !.iterationCount = @ + 1,
                !.solution = b.solution,
                !.isComplete = b.solution = beforeState
                                  \/ isCompletelyResolved(b.solution),
                !.returned =
                    IF b.solution = beforeState \/ isCompletelyResolved(b.solution)
                    THEN [success |-> TRUE, completed |-> TRUE, newCells |-> -1]
                    ELSE [success |-> TRUE, completed |-> FALSE,
                          newCells |-> Cardinality(NewCells(beforeState, b.solution))]]
    /\ UNCHANGED <<constraintGrid, probe, progress, gov, now, lastCall, csp, engine, pc, stack, arg,
                   basic, ret, result, reason, trip, passes>>

\* a faulty executeNextStep that completes only on a pass without a change
ExecuteUntilUnchanged ==
    /\ pc = "stepping"
    /\ stepSolverState.active
    /\ ~stepSolverState.isComplete
    /\ \E beforeState \in {stepSolverState.solution} :
       \E a \in {analyzeConstraints(constraintGrid, beforeState)} :
          stepSolverState' =
             [stepSolverState EXCEPT
                !.iterationCount = @ + 1,
                !.solution = a.solution,
                !.isComplete = ~a.changed,
                !.returned =
                    IF ~a.changed
                    THEN [success |-> TRUE, completed |-> TRUE, newCells |-> -1]
                    ELSE [success |-> TRUE, completed |-> FALSE,
                          newCells |-> Cardinality(NewCells(beforeState, a.solution))]]
    /\ UNCHANGED <<constraintGrid, probe, progress, gov, now, lastCall, csp, engine, pc, stack, arg,
                   basic, ret, result, reason, trip, passes>>

\* executeNextStep on a session that is not complete
ExecuteNextStep ==
    /\ pc = "stepping"
    /\ stepSolverState.active
    /\ ~stepSolverState.isComplete
    /\ \E beforeState \in {stepSolverState.solution} :
       \E a \in {analyzeConstraints(constraintGrid, beforeState)} :
          stepSolverState' =
             [stepSolverState EXCEPT
                !.iterationCount = @ + 1,
                !.solution = a.solution,
                !.isComplete = ~a.changed \/ isCompletelyResolved(a.solution),
                !.returned =
                    IF ~a.changed \/ isCompletelyResolved(a.solution)
                    THEN [success |-> TRUE, completed |-> TRUE, newCells |-> -1]
                    ELSE [success |-> TRUE, completed |-> FALSE,
                          newCells |-> Cardinality(NewCells(beforeState, a.solution))]]
    /\ UNCHANGED <<constraintGrid, probe, progress, gov, now, lastCall, csp, engine, pc, stack, arg,
                   basic, ret, result, reason, trip, passes>>

\* executeNextStep on a complete session: nothing but the return value
ExecuteCompleted ==
    /\ pc = "stepping"
    /\ stepSolverState.active
    /\ stepSolverState.isComplete
    /\ stepSolverState' =
          [stepSolverState EXCEPT
             !.returned = [success |-> FALSE, completed |-> TRUE, newCells |-> -1]]
    /\ UNCHANGED <<constraintGrid, probe, progress, gov, now, lastCall, csp, engine, pc, stack, arg,
                   basic, ret, result, reason, trip, passes>>

NextStep ==
    \/ SolveStepByStep
    \/ ExecuteNextStep
    \/ ExecuteCompleted

SpecStep == Init /\ [][NextStep]_vars

(***************************************************************************)
(* The message listener of content.js: solve_puzzle, next_step, reset.     *)
(* probe holds the last message handled and the response sent.             *)
(***************************************************************************)
\* MosaicStepController.executeNextStep on the session st
executeNextStep(st, grid) ==
    IF st.isComplete
    THEN [st EXCEPT !.returned = [success |-> FALSE, completed |-> TRUE,
                                  newCells |-> -1]]
    ELSE Once(analyzeConstraints(grid, st.solution), LAMBDA a :
            [st EXCEPT
                !.iterationCount = @ + 1,
                !.solution = a.solution,
                !.isComplete = ~a.changed \/ isCompletelyResolved(a.solution),
                !.returned =
                    IF ~a.changed \/ isCompletelyResolved(a.solution)
                    THEN [success |-> TRUE, completed |-> TRUE, newCells |-> -1]
                    ELSE [success |-> TRUE, completed |-> FALSE,
                          newCells |-> Cardinality(NewCells(st.solution, a.solution))]])

\* the { success, completed } of a response
Response(success, completed) == [success |-> success, completed |-> completed]

\* solve_puzzle with stepByStep: solveMosaicPuzzle returns false when the page
\* gives no puzzle (found = FALSE); otherwise solveMosaicAlgorithm resets the
\* governor and makes a new session; the listener has answered already
MsgSolvePuzzleStepByStep ==
    /\ pc = "idle"
    /\ \E found \in BOOLEAN :
          /\ probe' = [op |-> "solve_puzzle", args |-> <<TRUE, found, stepSolverState>>,
                       out |-> Response(TRUE, FALSE)]
          /\ IF found
             THEN \E solution \in {FilledArray(RowsOf(constraintGrid),
                                                ColsOf(constraintGrid), Unknown)} :
                     /\ stepSolverState' = MosaicStepController(solution)
                     /\ gov' = reset(gov, now)
             ELSE UNCHANGED <<stepSolverState, gov>>
    /\ UNCHANGED <<constraintGrid, progress, now, lastCall, csp, engine, pc, stack,
                   arg, basic, ret, result, reason, trip, passes>>

\* next_step: with a session, executeNextStep answers and a completed session
\* is dropped; if the clicks of the step throw (threw), the catch handler
\* answers and drops the session; without a session the listener answers
MsgNextStep ==
    /\ pc = "idle"
    /\ IF stepSolverState.active
       THEN \E st \in {executeNextStep(stepSolverState, constraintGrid)} :
            \E threw \in IF \E p \in NewCells(stepSolverState.solution, st.solution) :
                                SolAt(st.solution, p) = Filled
                          THEN BOOLEAN ELSE {FALSE} :
               IF threw
               THEN /\ probe' = [op |-> "next_step", args |-> <<stepSolverState>>,
                                 out |-> Response(FALSE, TRUE)]
                    /\ stepSolverState' = NoSession
               ELSE /\ probe' = [op |-> "next_step", args |-> <<stepSolverState>>,
                                 out |-> Response(st.returned.success,
                                                  st.returned.completed)]
                    /\ stepSolverState' = IF st.returned.completed
                                          THEN NoSession ELSE st
       ELSE /\ probe' = [op |-> "next_step", args |-> <<stepSolverState>>,
                         out |-> Response(FALSE, TRUE)]
            /\ stepSolverState' = stepSolverState
    /\ UNCHANGED <<constraintGrid, progress, gov, now, lastCall, csp, engine, pc,
                   stack, arg, basic, ret, result, reason, trip, passes>>

\* a faulty reset that leaves the session
MsgResetKeepingSession ==
    /\ pc = "idle"
    /\ probe' = [op |-> "reset", args |-> <<stepSolverState>>,
                 out |-> Response(TRUE, FALSE)]
    /\ UNCHANGED <<constraintGrid, progress, gov, now, lastCall, csp, engine, pc,
                   stack, arg, basic, ret, result, reason, trip, passes,
                   stepSolverState>>

\* reset: resetExtensionState drops the session
MsgReset ==
    /\ pc = "idle"
    /\ probe' = [op |-> "reset", args |-> <<stepSolverState>>,
                 out |-> Response(TRUE, FALSE)]
    /\ stepSolverState' = NoSession
    /\ UNCHANGED <<constraintGrid, progress, gov, now, lastCall, csp, engine, pc,
                   stack, arg, basic, ret, result, reason, trip, passes>>

\* solve_puzzle without stepByStep has run solveMosaicCSP to its end: the
\* listener is ready for the next message
MsgSolvePuzzleReturns ==
    /\ pc = "done"
    /\ pc' = "idle"
    /\ UNCHANGED <<constraintGrid, probe, progress, gov, now, lastCall, csp, engine,
                   stack, arg, basic, ret, result, reason, trip, passes,
                   stepSolverState>>

NextSession ==
    \/ MsgSolvePuzzleStepByStep
    \/ MsgNextStep
    \/ MsgReset
    \/ SolveCSP
    \/ MacEnter
    \/ MacExceeded
    \/ MacTry
    \/ MacReturn
    \/ CspFinish
    \/ MsgSolvePuzzleReturns

SpecSession ==
    /\ InitFrom(LiveGrids, {GovernorDefaults,
                            [GovernorDefaults EXCEPT !.maxRecursionDepth = 2]})
    /\ [][NextSession]_vars

(***************************************************************************)
(* The deduction engine on any grid state: basicConstraintPropagation and  *)
(* the step controller called on a solution array a caller holds           *)
(***************************************************************************)
\* the solution arrays of the dimensions of grid
SolutionsOf(grid) ==
    [1..RowsOf(grid) -> [1..ColsOf(grid) -> {Unknown, Empty, Filled}]]

InitDeduce ==
    /\ constraintGrid \in LiveGrids
    /\ gov \in Budgets
    /\ now = 1
    /\ lastCall = NoCall
    /\ csp = NoCSP
    /\ engine = "step"
    /\ pc = "stepping"
    /\ stack = <<>>
    /\ arg \in SolutionsOf(constraintGrid)
    /\ basic = <<>>
    /\ ret = NullRet
    /\ result = <<>>
    /\ reason = "none"
    /\ trip = "none"
    /\ passes = NoPasses
    /\ stepSolverState = MosaicStepController(arg)
    /\ progress = <<>>
    /\ probe = NoProbe

\* basicConstraintPropagation(arg, constraintGrid) after reset()
Propagate ==
    /\ pc = "stepping"
    /\ basic = <<>>
    /\ \E g0 \in {reset(gov, now)} :
       \E b \in {basicConstraintPropagation(arg, constraintGrid, g0, now)} :
          /\ basic' = b.solution
          /\ gov' = b.g
          /\ passes' = PassesOf(b, g0)
          /\ trip' = b.kind
    /\ UNCHANGED <<constraintGrid, probe, stepSolverState, progress, now, lastCall, csp, engine, pc,
                   stack, arg, ret, result, reason>>

NextDeduce ==
    \/ Propagate
    \/ ExecuteNextStep
    \/ ExecuteCompleted

SpecDeduce == InitDeduce /\ [][NextDeduce]_vars

(***************************************************************************)
(* The functions of the solver called on their own, on the grid states and *)
(* the CSP states a search can hand them                                   *)
(***************************************************************************)
\* the CSP of grid after variable.assign(v) on every cell solution gives a
\* value
AssignedCSP(grid, solution) ==
    Once(MosaicCSP(grid), LAMBDA c0 :
        [c0 EXCEPT !.vars = Explicit([p \in DOMAIN c0.vars |->
            IF SolAt(solution, p) = Unknown
            THEN c0.vars[p]
            ELSE assign(c0.vars[p], SolAt(solution, p)).var])])

InitCalls ==
    /\ constraintGrid \in LiveGrids
    /\ gov = reset(GovernorDefaults, 1)
    /\ now = 1
    /\ lastCall = NoCall
    /\ arg \in SolutionsOf(constraintGrid)
    /\ csp = AssignedCSP(constraintGrid, arg)
    /\ engine = "none"
    /\ pc = "calls"
    /\ stack = <<>>
    /\ basic = <<>>
    /\ ret = NullRet
    /\ result = <<>>
    /\ reason = "none"
    /\ trip = "none"
    /\ passes = NoPasses
    /\ stepSolverState = NoSession
    /\ progress = <<>>
    /\ probe = NoProbe

\* analyzeNumberConstraint(r, c, constraintGrid[r][c], solution) on a copy of
\* the grid state
AnalyzeNumber ==
    /\ pc = "calls"
    /\ \E p \in CellSet(RowsOf(constraintGrid), ColsOf(constraintGrid)) :
          /\ At(constraintGrid, p[1], p[2]) # NullClue
          /\ \E requiredCount \in {At(constraintGrid, p[1], p[2])} :
                probe' = [op |-> "analyzeNumberConstraint",
                          args |-> <<p[1], p[2], requiredCount, arg>>,
                          out |-> analyzeNumberConstraint(p[1], p[2], requiredCount,
                                                          arg)]
    /\ UNCHANGED <<constraintGrid, gov, now, lastCall, csp, engine, pc, stack, arg,
                   basic, ret, result, reason, trip, passes, stepSolverState,
                   progress>>

\* the sequences listing every element of the set S once
Orders(S) ==
    {o \in [1..Cardinality(S) -> S] : \A i, j \in DOMAIN o : o[i] = o[j] => i = j}

\* the passes of basicConstraintPropagation run to their fixpoint with the
\* constraints taken in some order
PropagateInOrder ==
    /\ pc = "calls"
    /\ \E order \in Orders({p \in CellSet(RowsOf(constraintGrid),
                                            ColsOf(constraintGrid)) :
                                At(constraintGrid, p[1], p[2]) # NullClue}) :
          probe' = [op |-> "fixpoint",
                    args |-> <<order, arg>>,
                    out |-> FixpointIn(constraintGrid, order, arg,
                                       PropagationIterationCap + 1)]
    /\ UNCHANGED <<constraintGrid, gov, now, lastCall, csp, engine, pc, stack, arg,
                   basic, ret, result, reason, trip, passes, stepSolverState,
                   progress>>

\* revise(xi, xj, constraint) on one arc of the CSP, before ac3Algorithm has
\* counted an operation; the domain of xi is changed in place
Revise ==
    /\ pc = "calls"
    /\ gov.operationCount = 0
    /\ \E a \in Range(getAllArcs(csp)) :
          \E rv \in {revise(csp.vars, a[1], a[2], csp.constraints[a[3]])} :
             /\ probe' = [op |-> "revise",
                          args |-> <<a[1], a[2], a[3], csp.vars>>,
                          out |-> rv]
             /\ csp' = [csp EXCEPT !.vars = rv.vars]
    /\ UNCHANGED <<constraintGrid, gov, now, lastCall, engine, pc, stack, arg,
                   basic, ret, result, reason, trip, passes, stepSolverState,
                   progress>>

NextCalls ==
    \/ AnalyzeNumber
    \/ PropagateInOrder

SpecCalls == InitCalls /\ [][NextCalls]_vars

\* ac3Algorithm(csp) with the governor as reset() leaves it; domains and
\* operation count are changed in place
RunAc3 ==
    /\ pc = "calls"
    /\ gov.operationCount = 0
    /\ \E s \in {ac3Algorithm(csp, gov, now)} :
          /\ probe' = [op |-> "ac3Algorithm", args |-> <<csp.vars>>,
                       out |-> [ret |-> s.ret, vars |-> s.vars]]
          /\ csp' = [csp EXCEPT !.vars = s.vars]
          /\ gov' = s.g
    /\ UNCHANGED <<constraintGrid, now, lastCall, engine, pc, stack, arg,
                   basic, ret, result, reason, trip, passes, stepSolverState,
                   progress>>

\* the cell a search node branches on: csp.getMostConstrainedVariable() in
\* macBacktrack, findBestUnknownCell(workingSolution, constraintGrid) in
\* backtrackSolve
SelectVariable ==
    /\ pc = "calls"
    /\ probe' = [op |-> "select",
                 args |-> <<csp.vars, arg>>,
                 out |-> [variable |-> getMostConstrainedVariable(csp),
                          unknownCell |-> findBestUnknownCell(arg, constraintGrid)]]
    /\ UNCHANGED <<constraintGrid, gov, now, lastCall, csp, engine, pc, stack, arg,
                   basic, ret, result, reason, trip, passes, stepSolverState,
                   progress>>

\* the functions of the CSP engine called on their own, from the CSP states
\* InitCalls builds and the ones revisions lead to
NextArcs ==
    \/ Revise
    \/ RunAc3
    \/ SelectVariable

SpecArcs == InitCalls /\ [][NextArcs]_vars

(***************************************************************************)
(* ac3Algorithm followed turn by turn of its while loop, on grids whose    *)
(* arcs outnumber its iteration cap                                        *)
(***************************************************************************)
\* square grids with the same clue on every cell
CapGrids ==
    {[r \in 1..CapSide |-> [c \in 1..CapSide |-> k]] : k \in 0..MaxClue}

InitCap ==
    /\ constraintGrid \in CapGrids
    /\ gov = reset(GovernorDefaults, 1)
    /\ now = 1
    /\ lastCall = NoCall
    /\ arg = <<>>
    /\ csp = MosaicCSP(constraintGrid)
    /\ engine = "none"
    /\ pc = "ac3"
    /\ stack = <<>>
    /\ basic = <<>>
    /\ ret = NullRet
    /\ result = <<>>
    /\ reason = "none"
    /\ trip = "none"
    /\ passes = NoPasses
    /\ stepSolverState = NoSession
    /\ progress = <<>>
    /\ probe = NoProbe

\* the call of ac3Algorithm from macBacktrackSearch: the queue is filled with
\* every arc
Ac3Begin ==
    /\ pc = "ac3"
    /\ probe.op = "none"
    /\ probe' = [op |-> "ac3Algorithm", args |-> <<csp.vars>>,
                 out |-> Ac3Start(csp, gov)]
    /\ UNCHANGED <<constraintGrid, gov, now, lastCall, csp, engine, pc, stack, arg,
                   basic, ret, result, reason, trip, passes, stepSolverState,
                   progress>>

\* one test of the while condition of ac3Algorithm and, if it holds, one turn
\* of the loop; the function has returned once out.done holds
Ac3Turn ==
    /\ pc = "ac3"
    /\ probe.op = "ac3Algorithm"
    /\ ~probe.out.done
    /\ \E s \in {ac3Iteration(csp, probe.out, now)} :
          /\ probe' = [probe EXCEPT !.out = s]
          /\ csp' = [csp EXCEPT !.vars = s.vars]
          /\ gov' = s.g
    /\ UNCHANGED <<constraintGrid, now, lastCall, engine, pc, stack, arg,
                   basic, ret, result, reason, trip, passes, stepSolverState,
                   progress>>

NextCap ==
    \/ Ac3Begin
    \/ Ac3Turn

SpecCap == InitCap /\ [][NextCap]_vars

(***************************************************************************)
(* new MosaicCSP(constraintGrid) on grids of up to MaxBuildSide rows and   *)
(* columns                                                                 *)
(***************************************************************************)
BuildGrids ==
    UNION {[1..r -> [1..c -> {NullClue, MaxClue}]] :
              r \in 1..MaxBuildSide, c \in 1..MaxBuildSide}

InitBuild ==
    /\ constraintGrid \in BuildGrids
    /\ gov = GovernorDefaults
    /\ now = 1
    /\ lastCall = NoCall
    /\ csp = NoCSP
    /\ engine = "none"
    /\ pc = "build"
    /\ stack = <<>>
    /\ arg = <<>>
    /\ basic = <<>>
    /\ ret = NullRet
    /\ result = <<>>
    /\ reason = "none"
    /\ trip = "none"
    /\ passes = NoPasses
    /\ stepSolverState = NoSession
    /\ progress = <<>>
    /\ probe = NoProbe

\* const csp = new MosaicCSP(constraintGrid)
Build ==
    /\ pc = "build"
    /\ csp' = MosaicCSP(constraintGrid)
    /\ pc' = "built"
    /\ UNCHANGED <<constraintGrid, gov, now, lastCall, engine, stack, arg, basic,
                   ret, result, reason, trip, passes, stepSolverState, progress,
                   probe>>

SpecBuild == InitBuild /\ [][Build]_vars

(***************************************************************************)
(* The governor driven directly: its methods are public on                 *)
(* window.SolverSafetyManager, and testSafetyMechanisms writes its fields. *)
(***************************************************************************)
\* a clock reading late enough for a start time a whole budget in the past
GovEpoch == DefaultMaxTimeMs + GovWindow + 1

InitGov ==
    /\ constraintGrid = << <<NullClue>> >>
    /\ gov \in Budgets
    /\ now = GovEpoch
    /\ lastCall = NoCall
    /\ csp = NoCSP
    /\ engine = "none"
    /\ pc = "driver"
    /\ stack = <<>>
    /\ arg = <<>>
    /\ basic = <<>>
    /\ ret = NullRet
    /\ result = <<>>
    /\ reason = "none"
    /\ trip = "none"
    /\ passes = NoPasses
    /\ stepSolverState = NoSession
    /\ progress = <<>>
    /\ probe = NoProbe

\* stopped: a shouldStop() call has returned true since the fields were last
\* written from outside (reset() or a direct assignment)
Called(op, r, clock) ==
    [op |-> op, ret |-> r, clock |-> clock,
     stopped |-> IF op = "shouldStop" THEN lastCall.stopped \/ r
                 ELSE IF op \in {"reset", "startTime =", "operationCount =",
                                 "currentDepth ="}
                 THEN FALSE
                 ELSE lastCall.stopped]

\* the counters are driven near zero and near their thresholds only
OpRoom(g) ==
    \/ g.operationCount < GovWindow
    \/ /\ g.operationCount >= g.maxIterations - GovWindow
       /\ g.operationCount < g.maxIterations + GovWindow

DepthRoom(g) ==
    \/ g.currentDepth < GovWindow
    \/ /\ g.currentDepth >= g.maxRecursionDepth - GovWindow
       /\ g.currentDepth < g.maxRecursionDepth + GovWindow

ExitRoom(g) ==
    \/ /\ g.currentDepth > 0 - GovWindow
       /\ g.currentDepth <= GovWindow
    \/ /\ g.currentDepth > g.maxRecursionDepth - GovWindow
       /\ g.currentDepth <= g.maxRecursionDepth + GovWindow

GovUnchanged ==
    UNCHANGED <<constraintGrid, probe, stepSolverState, progress, now, csp, engine, pc, stack, arg, basic, ret, result,
                reason, trip, passes>>

GovReset ==
    /\ pc = "driver"
    /\ gov' = reset(gov, now)
    /\ lastCall' = Called("reset", FALSE, TRUE)
    /\ GovUnchanged

GovCheckTimeout ==
    /\ pc = "driver"
    /\ gov' = checkTimeout(gov, now).g
    /\ lastCall' = Called("checkTimeout", checkTimeout(gov, now).ret, StartTimeSet(gov))
    /\ GovUnchanged

GovIncrementOperation ==
    /\ pc = "driver"
    /\ OpRoom(gov)
    /\ gov' = incrementOperation(gov).g
    /\ lastCall' = Called("incrementOperation", incrementOperation(gov).ret, FALSE)
    /\ GovUnchanged

GovEnterRecursion ==
    /\ pc = "driver"
    /\ DepthRoom(gov)
    /\ gov' = enterRecursion(gov).g
    /\ lastCall' = Called("enterRecursion", enterRecursion(gov).ret, FALSE)
    /\ GovUnchanged

GovExitRecursion ==
    /\ pc = "driver"
    /\ ExitRoom(gov)
    /\ gov' = exitRecursion(gov)
    /\ lastCall' = Called("exitRecursion", FALSE, FALSE)
    /\ GovUnchanged

GovShouldStop ==
    /\ pc = "driver"
    /\ OpRoom(gov)
    /\ gov' = shouldStop(gov, now).g
    /\ lastCall' = Called("shouldStop", shouldStop(gov, now).ret,
                          shouldStop(gov, now).clock /\ StartTimeSet(gov))
    /\ GovUnchanged

\* SolverSafetyManager.startTime = Date.now() - d
PokeStartTime ==
    /\ pc = "driver"
    /\ \E d \in (gov.maxTimeMs - GovWindow)..(gov.maxTimeMs + GovWindow) :
          gov' = [gov EXCEPT !.startTime = now - d]
    /\ lastCall' = Called("startTime =", FALSE, TRUE)
    /\ GovUnchanged

\* SolverSafetyManager.operationCount = n
PokeOperationCount ==
    /\ pc = "driver"
    /\ \E n \in (gov.maxIterations - GovWindow)..(gov.maxIterations + GovWindow) :
          /\ n >= 0
          /\ gov' = [gov EXCEPT !.operationCount = n]
    /\ lastCall' = Called("operationCount =", FALSE, FALSE)
    /\ GovUnchanged

\* SolverSafetyManager.currentDepth = n
PokeCurrentDepth ==
    /\ pc = "driver"
    /\ \E n \in (gov.maxRecursionDepth - GovWindow)..(gov.maxRecursionDepth + GovWindow) :
          gov' = [gov EXCEPT !.currentDepth = n]
    /\ lastCall' = Called("currentDepth =", FALSE, FALSE)
    /\ GovUnchanged

\* a millisecond passes
GovTick ==
    /\ pc = "driver"
    /\ now < GovEpoch + GovWindow
    /\ now' = now + 1
    /\ lastCall' = Called("tick", FALSE, FALSE)
    /\ UNCHANGED <<constraintGrid, probe, stepSolverState, progress, gov, csp, engine, pc, stack, arg, basic, ret, result,
                   reason, trip, passes>>

NextGov ==
    \/ GovReset
    \/ GovCheckTimeout
    \/ GovIncrementOperation
    \/ GovEnterRecursion
    \/ GovExitRecursion
    \/ GovShouldStop
    \/ PokeStartTime
    \/ PokeOperationCount
    \/ PokeCurrentDepth
    \/ GovTick

SpecGov == InitGov /\ [][NextGov]_vars

(***************************************************************************)
(* Solve calls on malformed clue grids: ragged rows, or a clue above 9     *)
(***************************************************************************)
RowsOver(clues, n) == [1..n -> clues]

\* two rows of different lengths holding at most MaxCells clues
RaggedGrids ==
    UNION {{<<a, b>> : a \in RowsOver(ClueSample, d[1]), b \in RowsOver(ClueSample, d[2])} :
            d \in {e \in (1..MaxCells) \X (1..MaxCells) :
                        e[1] # e[2] /\ e[1] + e[2] <= MaxCells}}

\* rectangular grids whose first clue is above the largest clue value
OutOfRangeGrids ==
    {[g EXCEPT ![1][1] = MaxClueValue + 1] : g \in RectGrids}

MalformedGrids == RaggedGrids \cup OutOfRangeGrids

IsRagged(grid) == \E r \in 1..Len(grid) : Len(grid[r]) # Len(grid[1])

IsOutOfRange(grid) ==
    \E r \in 1..Len(grid) : \E c \in 1..Len(grid[r]) :
        grid[r][c] # NullClue /\ (grid[r][c] < 0 \/ grid[r][c] > MaxClueValue)

IsMalformed(grid) == IsRagged(grid) \/ IsOutOfRange(grid)

SpecMalformed == InitWith(MalformedGrids) /\ [][Next]_vars

(***************************************************************************)
(* Properties                                                              *)
(***************************************************************************)
\* some filled/empty assignment satisfies every clue of the grid
HasSolution(grid) ==
    \E sol \in [1..RowsOf(grid) -> [1..ColsOf(grid) -> {Empty, Filled}]] :
        isValidSolution(sol, grid)

\* a grid of the clue grid's dimensions holding only Filled and Empty
IsResultGrid(g, grid) ==
    /\ Len(g) = RowsOf(grid)
    /\ \A r \in 1..Len(g) :
          /\ Len(g[r]) = ColsOf(grid)
          /\ \A c \in 1..Len(g[r]) : g[r][c] \in {Empty, Filled}

Done == pc = "done"

\* C1: when no governor limit is met, solveMosaicCSP on a clue grid that has a
\* solution returns a grid in which every clued cell's clipped 3x3 window
\* holds exactly the clue's number of Filled cells.
C1_Completeness ==
    (Done /\ engine = "csp" /\ trip = "none" /\ HasSolution(constraintGrid))
        => isValidSolution(result, constraintGrid)

\* C2: a search call (macBacktrack, backtrackSolve) returns a solution grid
\* only if every cell of it is assigned and every clue is met exactly.
C2_DoneOnlyWhenSatisfied ==
    ret.ok => /\ isCompletelyResolved(ret.grid)
              /\ isValidSolution(ret.grid, constraintGrid)

\* C3: the grid a finished non-step solve call returned, on whichever exit
\* path, has the dimensions of the clue grid and holds only Filled and Empty.
C3_ResultIsFilledEmptyGrid ==
    Done => IsResultGrid(result, constraintGrid)

\* a finished run that met a governor limit and in which cells were still
\* Unknown when the grid was returned
C3_Witness ==
    /\ Done
    /\ trip # "none"
    /\ reason # "solved"
    /\ IF engine = "csp"
       THEN \E p \in DOMAIN csp.vars : csp.vars[p].value = Unknown
       ELSE ~isCompletelyResolved(basic)
    /\ \E r \in 1..Len(result) : \E c \in 1..Len(result[r]) : result[r][c] = Empty

\* C4: the reason a finished solve call reports for a run that found no
\* solution is a no-solution report only if no governor limit was met, so
\* that a governor trip is told apart from a search that was exhausted.
C4_TripToldApart ==
    (Done /\ reason = "no solution or safety limit") => trip = "none"

\* C5: for a malformed clue grid no variable or constraint is built and no
\* propagation or search step is run.
C5_MalformedRejected ==
    IsMalformed(constraintGrid)
        => /\ ~csp.built
           /\ passes = NoPasses
           /\ pc \in {"idle", "done"}
           /\ stack = <<>>

\* C6: every solve call on a rectangular clue grid, whatever the budgets and
\* the clues, comes to its end and has then returned a result grid.
C6_Terminates == <>(Done /\ IsResultGrid(result, constraintGrid))

\* a run that a governor limit ended, finished with a grid
C6_Witness == Done /\ trip # "none" /\ IsResultGrid(result, constraintGrid)

Elapsed(g, t) == t - g.startTime

\* C8: shouldStop() returns true exactly when the flag is set, or the elapsed
\* time is above the time budget, or the operation count it has just
\* incremented is above the maximum; checkTimeout(), incrementOperation() and
\* enterRecursion() trip exactly above their thresholds, which default to
\* 30000 ms, 10000 operations and depth 100.
C8_Thresholds ==
    /\ GovernorDefaults.maxTimeMs = 30000
    /\ GovernorDefaults.maxIterations = 10000
    /\ GovernorDefaults.maxRecursionDepth = 100
    /\ [][/\ lastCall'.op = "shouldStop"
              => (lastCall'.ret <=>
                    \/ gov.isTimeoutExceeded
                    \/ (StartTimeSet(gov) /\ Elapsed(gov, now) > gov.maxTimeMs)
                    \/ gov'.operationCount > gov.maxIterations)
          /\ lastCall'.op = "checkTimeout"
              => (lastCall'.ret <=>
                    (StartTimeSet(gov) /\ Elapsed(gov, now) > gov.maxTimeMs))
          /\ lastCall'.op = "incrementOperation"
              => (lastCall'.ret <=> gov'.operationCount > gov.maxIterations)
          /\ lastCall'.op = "enterRecursion"
              => (lastCall'.ret <=> gov'.currentDepth > gov.maxRecursionDepth)]_vars

\* with the default budgets, incrementOperation() has just brought the count
\* to the maximum itself and has not tripped
C8_Witness ==
    /\ gov.maxIterations = DefaultMaxIterations
    /\ lastCall.op = "incrementOperation"
    /\ gov.operationCount = gov.maxIterations
    /\ ~lastCall.ret

\* C9: a run of basicConstraintPropagation that makes k full passes adds
\* exactly k to operationCount.
C9_OnePerPass ==
    passes.opsAfter - passes.opsBefore = passes.iterations

\* C11: the first step of a solve call, whatever the governor held before it,
\* leaves a start time equal to the time of the call, the timeout flag clear,
\* depth 0 and an operation count holding only the calls of this run (at most
\* the 1000 of AC-3, or the 101 passes of propagation and the two checks after
\* them); it stops for the operation cap only if this count is above the cap.
C11_ResetAtStart ==
    [][pc = "idle" =>
          /\ gov'.startTime = now
          /\ ~gov'.isTimeoutExceeded
          /\ gov'.currentDepth = 0
          /\ gov'.operationCount <= Ac3MaxIterations
          /\ engine' = "count" => passes'.opsBefore = 0
          /\ trip' \in {"none", "ops"}
          /\ trip' = "ops" => gov.maxIterations < Ac3MaxIterations]_vars

\* a call that followed a stopped run and has ended solved with no limit met
C11_Witness ==
    /\ Done
    /\ lastCall.stopped
    /\ reason = "solved"
    /\ trip = "none"

\* the test grid of testCSPAlgorithm: clue 1 at (0,0) and at (1,1)
ScenarioA == << <<1, NullClue>>, <<NullClue, 1>> >>

\* the solution derived by hand: (0,0), (0,1) and (1,0) take blank, the value
\* tried first, and (1,1) is then forced to filled
ScenarioASolution == << <<Empty, Empty>>, <<Empty, Filled>> >>

\* C12: on the grid of scenario A the first AC-3 pass reports the problem
\* consistent, and every run of solveMosaicCSP that meets no governor limit
\* ends solved with the same grid, which holds exactly one Filled cell and
\* meets both clues.
C12_ScenarioA ==
    (constraintGrid = ScenarioA /\ engine = "csp" /\ trip = "none")
        => /\ (pc = "mac_ret" /\ stack = <<>>) => ret.ok
           /\ Done => /\ reason = "solved"
                      /\ result = ScenarioASolution
                      /\ isValidSolution(result, constraintGrid)

\* solveMosaicCSP has returned on the grid of scenario A with no limit met
C12_Witness ==
    /\ constraintGrid = ScenarioA
    /\ engine = "csp"
    /\ trip = "none"
    /\ Done

\* a grid with no clue on any cell
NoClues(grid) ==
    \A r \in 1..RowsOf(grid) : \A c \in 1..ColsOf(grid) : At(grid, r - 1, c - 1) = NullClue

AllEmpty(g) == \A r \in 1..Len(g) : \A c \in 1..Len(g[r]) : g[r][c] = Empty

\* C13: on a grid with no clue a solve call that meets no governor limit
\* returns all cells Empty and reports solved, and no call of the search
\* (macBacktrack, backtrackSolve) chooses a variable, tries a value or
\* recurses.
C13_ScenarioB ==
    NoClues(constraintGrid)
        => /\ (Done /\ trip = "none") => (AllEmpty(result) /\ reason = "solved")
           /\ stack = <<>>
           /\ pc \notin {"mac_loop", "bt_loop"}

\* the cells of the clipped 3x3 window of p
Window(grid, p) == Range(get3x3Area(p[1], p[2], RowsOf(grid), ColsOf(grid)))

\* the number of Filled cells of sol in the window of p is the clue of p
MeetsClue(sol, grid, p) ==
    Cardinality({q \in Window(grid, p) : SolAt(sol, q) = Filled}) = At(grid, p[1], p[2])

\* two clues whose windows share a cell and that no assignment meets together
ClashingClues(grid) ==
    \E p, q \in CellSet(RowsOf(grid), ColsOf(grid)) :
        /\ p # q
        /\ At(grid, p[1], p[2]) # NullClue
        /\ At(grid, q[1], q[2]) # NullClue
        /\ Window(grid, p) \cap Window(grid, q) # {}
        /\ \A sol \in [1..RowsOf(grid) -> [1..ColsOf(grid) -> {Empty, Filled}]] :
              ~(MeetsClue(sol, grid, p) /\ MeetsClue(sol, grid, q))

C15_ScenarioD ==
    (gov.maxIterations = 1 /\ Done /\ trip = "ops")
        => /\ IsResultGrid(result, constraintGrid)
           /\ reason \notin {"solved", "no solution or safety limit"}

\* C16: the grid basicConstraintPropagation hands back to
\* mosaicConstraintPropagation, which goes on from it without a signal of
\* inconsistency, has for every clue filledCount <= clue <= filledCount +
\* unknownCount over the clue's window.
C16_DeductionSound ==
    (engine = "count" /\ basic # <<>>)
        => isConsistentWithConstraints(basic, constraintGrid)

\* every cell determined in before has the same state in after
Kept(before, after) ==
    \A p \in CellSet(Len(before), Len(before[1])) :
        SolAt(before, p) # Unknown => SolAt(after, p) = SolAt(before, p)

\* C17: whatever grid state the deduction starts from, the grid
\* basicConstraintPropagation returns and the grid of the step session after
\* any number of passes keep every cell that was Filled or Empty at the
\* start: deduction writes to Unknown cells only.
C17_DeductionMonotone ==
    /\ basic # <<>> => Kept(arg, basic)
    /\ Kept(arg, stepSolverState.solution)

\* a pass of the step session has determined a cell of a grid state that
\* held a Filled and an Empty cell already
C17_Witness ==
    /\ stepSolverState.iterationCount > 0
    /\ stepSolverState.solution # arg
    /\ \E p, q \in CellSet(Len(arg), Len(arg[1])) :
          SolAt(arg, p) = Filled /\ SolAt(arg, q) = Empty

\* C18: when one full pass of analyzeConstraints changes nothing of a grid
\* state, basicConstraintPropagation on that state returns the same grid
\* after at most one pass.
C18_DeductionIdempotent ==
    (basic # <<>> /\ ~analyzeConstraints(constraintGrid, arg).changed)
        => (basic = arg /\ passes.iterations <= 1)

\* basicConstraintPropagation has run one pass on a fixpoint that still
\* holds an Unknown cell
C18_Witness ==
    /\ basic # <<>>
    /\ ~analyzeConstraints(constraintGrid, arg).changed
    /\ ~isCompletelyResolved(arg)
    /\ passes.iterations = 1

\* C19: a call of executeNextStep on a session that is not complete makes
\* exactly one pass of analyzeConstraints over the session grid, and no
\* other step changes the session grid.
C19_OnePassPerStep ==
    [][/\ (stepSolverState.active /\ stepSolverState'.iterationCount
                                        = stepSolverState.iterationCount + 1)
            => /\ ~stepSolverState.isComplete
               /\ stepSolverState'.solution =
                     analyzeConstraints(constraintGrid, stepSolverState.solution).solution
       /\ (stepSolverState.active /\ stepSolverState'.iterationCount
                                        = stepSolverState.iterationCount)
            => stepSolverState'.solution = stepSolverState.solution]_vars

\* a second call has determined cells and left the session incomplete, or
\* has completed it with cells the first call had left Unknown
C19_Witness ==
    /\ stepSolverState.active
    /\ stepSolverState.iterationCount = 2
    /\ stepSolverState.solution #
          analyzeConstraints(constraintGrid,
              FilledArray(RowsOf(constraintGrid), ColsOf(constraintGrid), Unknown)).solution

\* C20: every call of progressCallback during a solve carries totalCells =
\* R*C, resolvedCells = the number of cells of the grid at hand that are not
\* Unknown, between 0 and totalCells, and percentage = the integer nearest to
\* 100 * resolvedCells / totalCells, within 0..100; the last call of a run
\* that ends solved is (100, totalCells, totalCells).
C20_ProgressEvents ==
    LET total == RowsOf(constraintGrid) * ColsOf(constraintGrid)
    IN  /\ \A i \in 1..Len(progress) :
              /\ progress[i].totalCells = total
              /\ progress[i].resolvedCells = ResolvedCells(progress[i].seen)
              /\ progress[i].resolvedCells \in 0..total
              /\ progress[i].percentage \in 0..100
              /\ 2 * (100 * progress[i].resolvedCells
                        - progress[i].percentage * total) <= total
              /\ 2 * (progress[i].percentage * total
                        - 100 * progress[i].resolvedCells) <= total
        /\ (Done /\ reason = "solved")
              => /\ progress # <<>>
                 /\ progress[Len(progress)].percentage = 100
                 /\ progress[Len(progress)].resolvedCells = total
                 /\ progress[Len(progress)].totalCells = total

\* a call has reported a percentage that had to be rounded
C20_Witness ==
    \E i \in 1..Len(progress) :
        /\ (100 * progress[i].resolvedCells) % progress[i].totalCells # 0
        /\ 2 * ((100 * progress[i].resolvedCells) % progress[i].totalCells)
              > progress[i].totalCells

\* the cells of the grid state sol within one step of (row, col)
Scope(sol, row, col) ==
    {q \in CellSet(Len(sol), Len(sol[1])) :
        /\ q[1] - row \in {-1, 0, 1}
        /\ q[2] - col \in {-1, 0, 1}}

FilledIn(sol, scope) == Cardinality({q \in scope : SolAt(sol, q) = Filled})

UnknownIn(sol, scope) == Cardinality({q \in scope : SolAt(sol, q) = Unknown})

\* C21: processing one constraint with F filled and U unknown cells in its
\* scope sets every Unknown cell of the scope to Empty when F = requirement,
\* to Filled when F # requirement and F + U = requirement, and changes no
\* cell otherwise; a cell outside the scope or not Unknown keeps its state.
C21_DeductionRules ==
    probe.op = "analyzeNumberConstraint" =>
        LET row == probe.args[1]
            col == probe.args[2]
            requirement == probe.args[3]
            sol == probe.args[4]
            scope == Scope(sol, row, col)
            F == FilledIn(sol, scope)
            U == UnknownIn(sol, scope)
            expected(q) ==
                IF q \in scope /\ SolAt(sol, q) = Unknown /\ F = requirement
                THEN Empty
                ELSE IF q \in scope /\ SolAt(sol, q) = Unknown
                        /\ F # requirement /\ F + U = requirement
                THEN Filled
                ELSE SolAt(sol, q)
        IN  /\ Len(probe.out.solution) = Len(sol)
            /\ \A r \in 1..Len(sol) : Len(probe.out.solution[r]) = Len(sol[r])
            /\ \A q \in CellSet(Len(sol), Len(sol[1])) :
                  SolAt(probe.out.solution, q) = expected(q)

\* the forced-fill rule has fired on a grid state with a cell outside the
\* scope
C21_Witness ==
    /\ probe.op = "analyzeNumberConstraint"
    /\ probe.out.changed
    /\ \E q \in CellSet(Len(arg), Len(arg[1])) :
          SolAt(arg, q) = Unknown /\ SolAt(probe.out.solution, q) = Filled
    /\ \E q \in CellSet(Len(arg), Len(arg[1])) :
          q \notin Scope(arg, probe.args[1], probe.args[2])

\* the constraint at (row, col) cannot be met any more in the grid state sol
Contradicts(sol, row, col, requirement) ==
    LET scope == Scope(sol, row, col)
    IN  \/ FilledIn(sol, scope) > requirement
        \/ FilledIn(sol, scope) + UnknownIn(sol, scope) < requirement

\* a pass over the constraints of grid in row-major order that ends at the
\* first constraint it meets in contradiction
RECURSIVE FirstContradiction(_, _, _)
FirstContradiction(grid, cells, solution) ==
    IF cells = <<>>
    THEN [met |-> FALSE, solution |-> solution]
    ELSE IF At(grid, Head(cells)[1], Head(cells)[2]) = NullClue
    THEN FirstContradiction(grid, Tail(cells), solution)
    ELSE IF Contradicts(solution, Head(cells)[1], Head(cells)[2],
                        At(grid, Head(cells)[1], Head(cells)[2]))
    THEN [met |-> TRUE, solution |-> solution]
    ELSE FirstContradiction(grid, Tail(cells),
            analyzeNumberConstraint(Head(cells)[1], Head(cells)[2],
                                    At(grid, Head(cells)[1], Head(cells)[2]),
                                    solution).solution)

\* C22: when the first pass of basicConstraintPropagation meets a constraint
\* with F > requirement or F + U < requirement, the engine stops there: the
\* grid it hands back is the grid state at that constraint, no later
\* constraint having written a cell.
C22_ContradictionSignalled ==
    (basic # <<>> /\ passes.iterations > 0)
        => LET first == FirstContradiction(constraintGrid,
                            CellSeq(RowsOf(constraintGrid), ColsOf(constraintGrid)),
                            arg)
           IN  first.met => basic = first.solution

\* the grid state sol can be completed to a grid that meets every clue
Completable(sol, grid) ==
    \E full \in [1..RowsOf(grid) -> [1..ColsOf(grid) -> {Empty, Filled}]] :
        /\ Kept(sol, full)
        /\ isValidSolution(full, grid)

\* the fixpoint the code reaches: the passes in row-major order
RowMajorFixpoint ==
    basicConstraintPropagation(arg, constraintGrid, reset(GovernorDefaults, now),
                               now).solution

C25_UndoExact ==
    [][engine' = "csp" =>
          /\ pc' = "mac_loop" => csp'.vars = stack'[Len(stack')].ws
          /\ (pc = "mac_loop" /\ pc' = "mac_ret")
                => (~ret'.ok /\ csp'.vars = Top.ws)
          /\ (pc = "mac_enter" /\ pc' \in {"mac_ret", "mac_exceeded"} /\ ~ret'.ok)
                => csp' = csp
          /\ restoreCSPState(csp', saveCSPState(csp')) = csp']_vars

\* an invocation is back at the head of its value loop after the recursive
\* call on a value returned null, another variable being undecided with
\* both values in its domain again
C25_Witness ==
    /\ engine = "csp"
    /\ pc = "mac_loop"
    /\ Top.saved # <<>>
    /\ Len(Top.values) < Cardinality(Top.ws[Top.cell].domain)
    /\ \E p \in DOMAIN csp.vars :
          p # Top.cell /\ csp.vars[p].value = Unknown /\ csp.vars[p].domain = {Empty, Filled}

\* a step of a value loop that tries a value: it neither leaves the loop
\* nor returns from the invocation
TriesValue ==
    /\ pc \in {"mac_loop", "bt_loop"}
    /\ pc' # pc \/ stack' # stack
    /\ Len(stack') >= Len(stack)

\* C26: once a governor limit has been met during a search (shouldStop()
\* returned true, or enterRecursion() reported the depth cap), no value loop
\* tries a further value and the solve call does not end solved.
C26_Cancelled ==
    [][trip # "none" => /\ ~TriesValue
                        /\ pc' = "done" => reason' # "solved"]_vars

\* constraint con can still be met with xi = v, xj = w and every other
\* variable of its scope at the value it has in vs
Supports(vs, con, xi, v, xj, w) ==
    LET others == Range(con.variables) \ {xi, xj}
        filled == Cardinality({p \in others : vs[p].value = Filled})
                  + (IF v = Filled THEN 1 ELSE 0) + (IF w = Filled THEN 1 ELSE 0)
        unknown == Cardinality({p \in others : vs[p].value = Unknown})
    IN  filled <= con.requiredCount /\ con.requiredCount <= filled + unknown

\* C27: revise(xi, xj, constraint) leaves in the domain of xi exactly the
\* values v that have a value w in the domain of xj with which the constraint
\* can still be met (filled <= requirement <= filled + unknown, the other
\* variables of the scope as they are); it changes nothing else and returns
\* true exactly when it removed a value.
C27_ArcRevision ==
    probe.op = "revise" =>
        LET xi == probe.args[1]
            xj == probe.args[2]
            con == csp.constraints[probe.args[3]]
            vs == probe.args[4]
            kept == {v \in vs[xi].domain :
                        \E w \in vs[xj].domain : Supports(vs, con, xi, v, xj, w)}
        IN  /\ probe.out.vars = [vs EXCEPT ![xi].domain = kept]
            /\ probe.out.revised <=> kept # vs[xi].domain

\* a revision that removed one value of xi and kept the other
C27_Witness ==
    /\ probe.op = "revise"
    /\ probe.out.revised
    /\ probe.out.vars[probe.args[1]].domain # {}
    /\ probe.args[4][probe.args[2]].domain = {Empty, Filled}

\* C28: from a grid state that can be completed to a solution, every cell the
\* passes of basicConstraintPropagation set to a value v has the domain {v}
\* after ac3Algorithm has run from the same state, unless ac3Algorithm
\* returns false.
C28_Ac3AtLeastDeduction ==
    (/\ probe.op = "ac3Algorithm"
     /\ probe.args[1] = AssignedCSP(constraintGrid, arg).vars
     /\ Completable(arg, constraintGrid)
     /\ probe.out.ret)
        => \A p \in DOMAIN csp.vars :
              (SolAt(arg, p) = Unknown /\ SolAt(RowMajorFixpoint, p) # Unknown)
                  => probe.out.vars[p].domain = {SolAt(RowMajorFixpoint, p)}

\* the number of clues whose window contains cell p
Degree(p) ==
    Cardinality({q \in CellSet(RowsOf(constraintGrid), ColsOf(constraintGrid)) :
                    /\ At(constraintGrid, q[1], q[2]) # NullClue
                    /\ q[1] - p[1] \in -1..1
                    /\ q[2] - p[2] \in -1..1})

\* p is q or comes before q in row-major order
RowMajorLeq(p, q) == p[1] < q[1] \/ (p[1] = q[1] /\ p[2] <= q[2])

\* chosen is <<>> when unresolved is empty; otherwise it holds the first cell
\* in row-major order among the cells of unresolved with the most clues
\* touching them among those with the smallest domain
IsSelection(chosen, unresolved, size(_)) ==
    IF unresolved = {}
    THEN chosen = <<>>
    ELSE /\ Len(chosen) = 1
         /\ chosen[1] \in unresolved
         /\ \A q \in unresolved :
               \/ size(chosen[1]) < size(q)
               \/ size(chosen[1]) = size(q) /\ Degree(chosen[1]) > Degree(q)
               \/ /\ size(chosen[1]) = size(q)
                  /\ Degree(chosen[1]) = Degree(q)
                  /\ RowMajorLeq(chosen[1], q)

\* C29: the cell a search node branches on is an unresolved cell of minimal
\* domain size, among those one with the most constraints touching it, and
\* among those the first in row-major order; no cell is returned only when
\* every cell is assigned.  The cells of backtrackSolve have no domains: each
\* unknown cell has both values left.
C29_VariableSelection ==
    probe.op = "select" =>
        LET vs == probe.args[1]
            sol == probe.args[2]
        IN  /\ IsSelection(probe.out.variable,
                           {p \in DOMAIN vs : vs[p].value = Unknown},
                           LAMBDA p : Cardinality(vs[p].domain))
            /\ IsSelection(probe.out.unknownCell,
                           {p \in DOMAIN vs : SolAt(sol, p) = Unknown},
                           LAMBDA p : 2)

\* a selection decided by the domain size: the variable chosen is not the
\* first unassigned one, which has more values left
C29_Witness ==
    /\ probe.op = "select"
    /\ Len(probe.out.variable) = 1
    /\ \E q \in DOMAIN probe.args[1] :
          /\ probe.args[1][q].value = Unknown
          /\ RowMajorLeq(q, probe.out.variable[1])
          /\ Cardinality(probe.args[1][q].domain)
                > Cardinality(probe.args[1][probe.out.variable[1]].domain)
    /\ probe.out.unknownCell # probe.out.variable

\* the clues whose window contains cell p
CluesAround(p) ==
    {q \in CellSet(RowsOf(constraintGrid), ColsOf(constraintGrid)) :
        /\ At(constraintGrid, q[1], q[2]) # NullClue
        /\ q[1] - p[1] \in -1..1
        /\ q[2] - p[2] \in -1..1}

\* the cells of the window of clue q that sol has filled
FilledAround(sol, q) ==
    Cardinality({p \in CellSet(RowsOf(constraintGrid), ColsOf(constraintGrid)) :
                    /\ p[1] - q[1] \in -1..1
                    /\ p[2] - q[2] \in -1..1
                    /\ SolAt(sol, p) = Filled})

RECURSIVE FillScore(_, _)
FillScore(sol, clues) ==
    IF clues = {}
    THEN 0
    ELSE LET q == CHOOSE x \in clues : TRUE
             missing == At(constraintGrid, q[1], q[2]) - FilledAround(sol, q)
         IN  (IF missing > 0 THEN missing ELSE 0) + FillScore(sol, clues \ {q})

EmptyScore(sol, clues) ==
    SatisfiedBonus * Cardinality({q \in clues :
                        FilledAround(sol, q) >= At(constraintGrid, q[1], q[2])})

\* C30: when a search node has chosen a cell with both values left, it tries
\* Filled first if the fill score of the cell (over the clues whose window
\* holds it, the sum of the fills still missing) is higher than its empty
\* score (a bonus per clue that has its fills already), and Empty first if
\* the empty score is higher.
C30_ValueOrdering ==
    [][(pc \in {"mac_enter", "bt_enter"} /\ pc' \in {"mac_loop", "bt_loop"}) =>
          LET f == stack'[Len(stack')]
              sol == IF engine = "csp" THEN toSolutionArray(csp) ELSE arg
              fill == FillScore(sol, CluesAround(f.cell))
              empty == EmptyScore(sol, CluesAround(f.cell))
          IN  Len(f.values) = 2 =>
                 /\ fill > empty => Head(f.values) = Filled
                 /\ empty > fill => Head(f.values) = Empty]_vars

\* C34: if a full assignment extends the assignment ac3Algorithm starts from
\* and meets every clue exactly, then after ac3Algorithm has returned the
\* value it gives each cell is still in the domain of the cell.
C34_SolutionPreserving ==
    probe.op = "ac3Algorithm" =>
        \A full \in [1..RowsOf(constraintGrid) ->
                        [1..ColsOf(constraintGrid) -> {Empty, Filled}]] :
            (Kept(arg, full) /\ isValidSolution(full, constraintGrid)) =>
                /\ probe.out.ret
                /\ \A p \in DOMAIN probe.out.vars :
                      SolAt(full, p) \in probe.out.vars[p].domain

\* ac3Algorithm removed a value from a state that has a solution
C34_Witness ==
    /\ probe.op = "ac3Algorithm"
    /\ probe.args[1] = AssignedCSP(constraintGrid, arg).vars
    /\ Completable(arg, constraintGrid)
    /\ \E p \in DOMAIN probe.out.vars :
          probe.out.vars[p].domain # probe.args[1][p].domain
    /\ \E p \in DOMAIN probe.out.vars : SolAt(arg, p) # Unknown

\* C39: after a call of ac3Algorithm, whatever it returns, every variable
\* has the value it had before the call and no domain holds a value it did
\* not hold before.
C39_OnlyDomains ==
    probe.op = "ac3Algorithm" =>
        \A p \in DOMAIN probe.args[1] :
            /\ probe.out.vars[p].value = probe.args[1][p].value
            /\ probe.out.vars[p].domain \subseteq probe.args[1][p].domain

\* a call that returned false after it had tested arcs and removed values
C39_Witness ==
    /\ probe.op = "ac3Algorithm"
    /\ ~probe.out.ret
    /\ gov.operationCount > 1
    /\ \E p \in DOMAIN probe.out.vars : probe.out.vars[p].domain = {}
    /\ \E p \in DOMAIN probe.out.vars : probe.out.vars[p].domain = {Empty, Filled}

\* C33: whenever ac3Algorithm returns false, some variable has an empty
\* domain, however many arcs the queue held and however many turns the loop
\* made.
C33_FalseOnlyOnEmptyDomain ==
    (probe.op = "ac3Algorithm" /\ pc = "ac3" /\ probe.out.done /\ ~probe.out.ret)
        => \E p \in DOMAIN probe.out.vars : probe.out.vars[p].domain = {}

GridCells == RowsOf(constraintGrid) * ColsOf(constraintGrid)

\* C36: in the CSP engine each active macBacktrack call below the one being
\* entered has assigned exactly one variable and AC-3 has assigned none, so
\* a complete assignment of an N-cell grid is found by the call at depth
\* N + 1; a grid with at least maxRecursionDepth cells therefore never ends
\* solved.
C36_DepthCapBoundsGrid ==
    engine = "csp" =>
        /\ pc = "mac_enter" =>
              /\ ResolvedCells(toSolutionArray(csp)) = Len(stack)
              /\ gov.currentDepth = Len(stack)
        /\ (pc = "mac_ret" /\ ret.ok) => GridCells + 1 <= gov.maxRecursionDepth
        /\ (pc = "done" /\ GridCells >= gov.maxRecursionDepth) => reason # "solved"

\* a grid that has a solution, with as many cells as the depth cap or more,
\* whose search ended at the depth cap
C36_Witness ==
    /\ engine = "csp"
    /\ pc = "done"
    /\ GridCells >= gov.maxRecursionDepth
    /\ trip = "depth"
    /\ HasSolution(constraintGrid)

\* C37: a call of executeNextStep on a session that is not complete reports
\* completed exactly when its pass changed nothing or left no Unknown cell,
\* and otherwise has determined a cell that was Unknown; a session that is
\* not complete after k calls has k cells determined at least and one cell
\* Unknown, so that an R x C grid is complete within R*C + 1 calls; a call on
\* a complete session answers success = false, completed = true and changes
\* no cell.
C37_StepSessionCompletes ==
    [][stepSolverState.active =>
         /\ ~stepSolverState.isComplete =>
               /\ stepSolverState'.iterationCount \in
                      {stepSolverState.iterationCount, stepSolverState.iterationCount + 1}
               /\ stepSolverState'.iterationCount = stepSolverState.iterationCount + 1 =>
                     /\ stepSolverState'.returned.success
                     /\ stepSolverState'.returned.completed
                           <=> \/ stepSolverState'.solution = stepSolverState.solution
                               \/ isCompletelyResolved(stepSolverState'.solution)
                     /\ stepSolverState'.isComplete = stepSolverState'.returned.completed
                     /\ ~stepSolverState'.returned.completed =>
                           NewCells(stepSolverState.solution,
                                    stepSolverState'.solution) # {}
         /\ ~stepSolverState'.isComplete =>
               /\ ResolvedCells(stepSolverState'.solution)
                     >= stepSolverState'.iterationCount
               /\ ResolvedCells(stepSolverState'.solution) < GridCells
         /\ stepSolverState'.iterationCount <= GridCells + 1
         /\ stepSolverState.isComplete =>
               /\ stepSolverState'.solution = stepSolverState.solution
               /\ stepSolverState'.iterationCount = stepSolverState.iterationCount
               /\ stepSolverState'.isComplete
               /\ ~stepSolverState'.returned.success
               /\ stepSolverState'.returned.completed]_vars

\* a session that took more than one call to complete and was then called
\* once more
C37_Witness ==
    /\ stepSolverState.active
    /\ stepSolverState.isComplete
    /\ stepSolverState.iterationCount > 2
    /\ ~stepSolverState.returned.success
    /\ stepSolverState.returned.completed
    /\ ~isCompletelyResolved(stepSolverState.solution)

\* a step that handles the message op
Handles(op) == probe' # probe /\ probe'.op = op

\* what C38 says of next_step and reset, and of the steps that are neither:
\* a session comes into being only by a step-by-step solve_puzzle; next_step
\* is served by the session there is, which is dropped when the step answers
\* completed; without a session next_step answers success = false,
\* completed = true; reset drops the session; nothing else touches it
SessionServed ==
    /\ (stepSolverState'.active /\ ~stepSolverState.active) =>
          /\ Handles("solve_puzzle")
          /\ probe'.args[1]
          /\ probe'.args[2]
    /\ Handles("next_step") =>
          IF stepSolverState.active
          THEN /\ probe'.out.completed <=> ~stepSolverState'.active
               /\ stepSolverState'.active =>
                     stepSolverState' = executeNextStep(stepSolverState, constraintGrid)
               /\ probe'.out.success =>
                     probe'.out.completed =
                        executeNextStep(stepSolverState, constraintGrid).returned.completed
          ELSE /\ probe'.out = Response(FALSE, TRUE)
               /\ ~stepSolverState'.active
    /\ Handles("reset") => ~stepSolverState'.active
    /\ ~(Handles("solve_puzzle") \/ Handles("next_step") \/ Handles("reset")) =>
          stepSolverState' = stepSolverState

\* the session a step-by-step solve_puzzle makes
FreshSession ==
    MosaicStepController(FilledArray(RowsOf(constraintGrid), ColsOf(constraintGrid),
                                     Unknown))

C32_EnginesAgree ==
    (/\ pc = "done"
     /\ probe.op \in {"csp", "count"}
     /\ probe.op # engine
     /\ trip = "none"
     /\ probe.out.trip = "none")
        => result = probe.out.result

\* what a solve call ended with: a grid that meets every clue, a grid that
\* does not, or no solution
Verdict(why, grid) ==
    IF why # "solved" THEN "fail"
    ELSE IF isValidSolution(grid, constraintGrid) THEN "satisfying"
    ELSE "unsatisfying"

\* C31: under the default budgets, which no search on these grids meets, a
\* search that tries the values of its nodes in the opposite order ends as
\* the search in the code's order does: a grid that meets every clue from
\* both, or no solution from both.
C31_OrderKeepsVerdict ==
    (pc = "done" /\ probe.op = engine) =>
        Verdict(reason, result) = Verdict(probe.out.reason, probe.out.result)

\* C10: currentDepth is the number of search calls that are active, so that
\* every macBacktrack and backtrackSolve call returns with the depth it was
\* entered with; it is 0 when the top-level call has returned, never
\* negative, and never above maxRecursionDepth + 1.
C10_DepthBalanced ==
    /\ pc \in {"mac_enter", "mac_loop", "mac_ret", "bt_enter", "bt_loop", "bt_ret"}
          => gov.currentDepth = Len(stack)
    /\ pc \in {"mac_exceeded", "bt_exceeded"} => gov.currentDepth = Len(stack) + 1
    /\ Done => gov.currentDepth = 0
    /\ gov.currentDepth >= 0
    /\ gov.currentDepth <= gov.maxRecursionDepth + 1

\* a run in which the depth cap was met has returned at top level
C10_Witness == Done /\ trip = "depth" /\ gov.currentDepth = 0

====
